---- MODULE Spec2Model ----
(***************************************************************************)
(* Verification model of the analysis-and-reporting pipeline of            *)
(* bruniai-action: verdict validation (analysis/vision.py), per-page       *)
(* status derivation and report assembly (reporter/report_generator.py),   *)
(* status aggregation and comment publishing (github/pr_comments.py) and   *)
(* chunked transport (reporter/reporter.py).                               *)
(*                                                                         *)
(* Python dicts are functions with a string domain; `d.get(k, default)` is *)
(* Get(d, k, default).  JSON null / Python None is the value Null.         *)
(***************************************************************************)
EXTENDS Integers, Sequences, FiniteSets, TLC

VARIABLES
    raw,                \* vision: the oracle's raw answer (response.choices[0].message.content)
    outcome,            \* vision: what analyze_images_with_vision did with it
    page_results,       \* report: the page results handed to parse_multi_page_analysis_results
    multi_page_report,  \* report: the MultiPageReportData it returned
    report_data,        \* report: the ReportData parse_analysis_results returned
    agg_reports,        \* aggregation: the reports handed to get_test_status
    overall_status,     \* aggregation: what get_test_status returned
    comments,           \* publish: the PR's comment list as GitHub holds it
    next_id,            \* publish: the id GitHub gives the next created comment
    runs,               \* publish: per call of post_pr_comment, its locals and its HTTP calls
    token,              \* transport: BruniReporter.token
    send,               \* transport: the locals of send_multi_page_report
    wire,               \* transport: the requests sent to the backend and its answers, in order
    sect,               \* sections: the locals of analyze_sections_side_by_side
    oracle_log,         \* sections: the oracle calls and retry sleeps it made, in order
    clock,              \* rate limit: time.time(), in seconds
    last_call_time,     \* rate limit: the wrapper's nonlocal last_call_time
    rl_calls,           \* rate limit: per call through the wrapper, its position and locals
    func_starts,        \* rate limit: when each call arrived and when its wrapped function began
    files,              \* diff: the image files on disk, by path
    diff_run,           \* diff: the call of generate_diff_image and how it ended
    render_input,       \* rendering: what a markdown renderer is called with
    markdown,           \* rendering: the lines it returned
    main,               \* runner: the locals of main and where it stands
    shots               \* runner: the section screenshot files on disk, by path

visionVars == <<raw, outcome>>
reportVars == <<page_results, multi_page_report, report_data>>
aggVars == <<agg_reports, overall_status>>
pubVars == <<comments, next_id, runs>>
sendVars == <<token, send, wire>>
sectVars == <<sect, oracle_log>>
rateVars == <<clock, last_call_time, rl_calls, func_starts>>
diffVars == <<files, diff_run>>
renderVars == <<render_input, markdown>>
mainVars == <<main, shots>>
vars == <<raw, outcome, page_results, multi_page_report, report_data, agg_reports, overall_status,
          comments, next_id, runs, token, send, wire, sect, oracle_log,
          clock, last_call_time, rl_calls, func_starts, files, diff_run,
          render_input, markdown, main, shots>>

---------------------------------------------------------------------------
(* Python dict helpers *)

Null == "<null>"

Get(d, k, default) == IF k \in DOMAIN d THEN d[k] ELSE default

GetNone(d, k) == Get(d, k, Null)

Put(d, k, v) == [x \in (DOMAIN d) \cup {k} |-> IF x = k THEN v ELSE d[x]]

EmptyDict == [x \in {} |-> Null]

---------------------------------------------------------------------------
(* analysis/vision.py : analyze_images_with_vision, lines 266-328 *)

valid_status_enum == {"pass", "fail", "warning", "none"}
valid_critical_issues_enum == {"none", "missing_sections", "other_issues"}
valid_visual_changes_enum == {"none", "minor", "significant"}
valid_recommendation_enum == {"pass", "review_required", "reject"}

\* The caller-supplied arguments and the freshly generated values.
CallerArgs ==
    [url |-> "base_url", preview_url |-> "preview_url", pr_number |-> "pr_number",
     repository |-> "repository", user_id |-> "user_id"]

FreshId == "uuid4"
FreshTime == "utcnow"

\* Mutant: the caller's values only fill the keys the oracle left out
\* (dict.setdefault), so an oracle-supplied identity survives.
FillMetadata_TrustOracle(d) ==
    LET Default(x, k, v) == IF k \in DOMAIN x THEN x ELSE Put(x, k, v)
        d1 == Default(d, "id", FreshId)
        d2 == Default(d1, "url", CallerArgs.url)
        d3 == Default(d2, "preview_url", CallerArgs.preview_url)
        d4 == Default(d3, "pr_number", CallerArgs.pr_number)
        d5 == Default(d4, "repository", CallerArgs.repository)
        d6 == Default(d5, "timestamp", FreshTime)
        d7 == Default(d6, "created_at", FreshTime)
    IN  Default(d7, "user_id", CallerArgs.user_id)

\* lines 273-280
FillMetadata(d) ==
    LET d1 == Put(d, "id", FreshId)
        d2 == Put(d1, "url", CallerArgs.url)
        d3 == Put(d2, "preview_url", CallerArgs.preview_url)
        d4 == Put(d3, "pr_number", CallerArgs.pr_number)
        d5 == Put(d4, "repository", CallerArgs.repository)
        d6 == Put(d5, "timestamp", FreshTime)
        d7 == Put(d6, "created_at", FreshTime)
    IN  Put(d7, "user_id", CallerArgs.user_id)

\* lines 283-284
MirrorStatus(d) ==
    IF "status_enum" \in DOMAIN d THEN Put(d, "status", d["status_enum"]) ELSE d

\* Mutant: the default is written to status_enum only, status is left alone.
RepairStatusEnum_NoMirror(d) ==
    IF GetNone(d, "status_enum") \notin valid_status_enum
    THEN Put(d, "status_enum", "warning")
    ELSE d

\* lines 293-296
RepairStatusEnum(d) ==
    IF GetNone(d, "status_enum") \notin valid_status_enum
    THEN Put(Put(d, "status_enum", "warning"), "status", "warning")
    ELSE d

\* lines 298-300
RepairCriticalIssuesEnum(d) ==
    IF GetNone(d, "critical_issues_enum") \notin valid_critical_issues_enum
    THEN Put(d, "critical_issues_enum", "other_issues")
    ELSE d

\* Mutant: only a missing key gets the default (d.setdefault), a wrong string stays.
RepairVisualChangesEnum_OnlyAbsent(d) ==
    IF "visual_changes_enum" \notin DOMAIN d
    THEN Put(d, "visual_changes_enum", "minor")
    ELSE d

\* lines 302-304
RepairVisualChangesEnum(d) ==
    IF GetNone(d, "visual_changes_enum") \notin valid_visual_changes_enum
    THEN Put(d, "visual_changes_enum", "minor")
    ELSE d

\* lines 306-308
RepairRecommendationEnum(d) ==
    IF GetNone(d, "recommendation_enum") \notin valid_recommendation_enum
    THEN Put(d, "recommendation_enum", "review_required")
    ELSE d

\* Mutant: only a section without a status gets the default.
RepairSections_OnlyAbsent(sections) ==
    [i \in 1..Len(sections) |->
        IF "status" \notin DOMAIN sections[i]
        THEN Put(sections[i], "status", "Present")
        ELSE sections[i]]

\* lines 313-316: the loop over critical_issues.sections
RepairSections(sections) ==
    [i \in 1..Len(sections) |->
        IF GetNone(sections[i], "status") \notin {"Present", "Missing"}
        THEN Put(sections[i], "status", "Present")
        ELSE sections[i]]

\* A JSON value that may or may not be an object: [kind, val].
JNull == [kind |-> "null"]
JObject(d) == [kind |-> "object", val |-> d]

\* lines 311-312: critical_issues = analysis_data.get('critical_issues', {});
\* critical_issues.get('sections', []) raises AttributeError when the value
\* is not a dict.
SectionsRaise(d) ==
    /\ "critical_issues" \in DOMAIN d
    /\ d["critical_issues"].kind # "object"

\* lines 311-316 on an object whose critical_issues is a dict or absent.
\* The sections are repaired in place, so an absent critical_issues or an
\* absent sections list leaves the object untouched.
ValidateSections(d) ==
    IF "critical_issues" \notin DOMAIN d THEN d
    ELSE LET ci == d["critical_issues"].val
         IN  IF "sections" \notin DOMAIN ci THEN d
             ELSE Put(d, "critical_issues",
                      JObject(Put(ci, "sections", RepairSections(ci["sections"]))))

\* lines 270-319 for a decoded JSON object
ValidateObject(d) ==
    ValidateSections(
        RepairRecommendationEnum(
            RepairVisualChangesEnum(
                RepairCriticalIssuesEnum(
                    RepairStatusEnum(
                        MirrorStatus(
                            FillMetadata(d)))))))

\* Mutant: text that is not JSON is answered with the all-defaults verdict.
analyze_images_with_vision_DefaultOnBadJson(r) ==
    CASE r.kind = "text" -> [kind |-> "returned", verdict |-> ValidateObject(EmptyDict)]
      [] r.kind = "array" -> [kind |-> "raised", error |-> "TypeError"]
      [] r.kind = "object" /\ SectionsRaise(r.val) ->
            [kind |-> "raised", error |-> "AttributeError"]
      [] OTHER -> [kind |-> "returned", verdict |-> ValidateObject(r.val)]

\* lines 266-328: raw is what json.loads sees.
\*   kind "text"   : not valid JSON             -> JSONDecodeError, re-raised as Exception
\*   kind "array"  : valid JSON, not an object  -> TypeError at line 273
\*   kind "object" : a dict
analyze_images_with_vision(r) ==
    CASE r.kind = "text" -> [kind |-> "raised", error |-> "Failed to parse AI response as JSON"]
      [] r.kind = "array" -> [kind |-> "raised", error |-> "TypeError"]
      [] r.kind = "object" /\ SectionsRaise(r.val) ->
            [kind |-> "raised", error |-> "AttributeError"]
      [] OTHER -> [kind |-> "returned", verdict |-> ValidateObject(r.val)]

---------------------------------------------------------------------------
(* Free text: a sequence of words; str.lower() and the `in` substring test *)

LowerWord(w) ==
    CASE w = "Missing" -> "missing"
      [] w = "Significant" -> "significant"
      [] w = "No" -> "no"
      [] w = "Review" -> "review"
      [] w = "Critical" -> "critical"
      [] w = "Minor" -> "minor"
      [] OTHER -> w

Lower(text) == [i \in 1..Len(text) |-> LowerWord(text[i])]

\* needle in text
Contains(text, needle) ==
    \E i \in 1..(Len(text) - Len(needle) + 1) :
        SubSeq(text, i, i + Len(needle) - 1) = needle

---------------------------------------------------------------------------
(* reporter/report_generator.py *)

\* A visual analysis as the runner hands it over: a dict, free text, or None.
VaDict(d) == [kind |-> "dict", val |-> d]
VaText(t) == [kind |-> "str", text |-> t]
VaNone == [kind |-> "none"]

\* lines 31-55
DefaultReport ==
    [critical_issues |-> [sections |-> <<>>, summary |-> ""],
     critical_issues_enum |-> "none",
     structural_analysis |-> [section_order |-> "", layout |-> "", broken_layouts |-> ""],
     visual_changes |-> [diff_highlights |-> <<>>, animation_issues |-> "", conclusion |-> ""],
     visual_changes_enum |-> "none",
     conclusion |-> [critical_issues |-> "", visual_changes |-> "", recommendation |-> "",
                     summary |-> ""],
     recommendation_enum |-> "pass"]

\* lines 58-66: the string branch
ParseText(text) ==
    LET low == Lower(text)
        r1 == IF Contains(low, <<"missing", "sections">>)
              THEN [DefaultReport EXCEPT !.critical_issues_enum = "missing_sections"]
              ELSE DefaultReport
    IN  IF Contains(low, <<"significant", "changes">>)
        THEN [r1 EXCEPT !.visual_changes_enum = "significant",
                        !.recommendation_enum = "review_required"]
        ELSE IF Contains(low, <<"minor", "changes">>)
             THEN [r1 EXCEPT !.visual_changes_enum = "minor"]
             ELSE r1

\* visual_analysis.get(k, {}) is something .get can be called on
SubIsDict(d, k) == k \in DOMAIN d => d[k].kind = "object"

SubDict(d, k) == IF k \in DOMAIN d THEN d[k].val ELSE EmptyDict

\* lines 71-76
ExtractCriticalIssues(d, r) ==
    LET ci == SubDict(d, "critical_issues")
    IN  [r EXCEPT !.critical_issues = [sections |-> Get(ci, "sections", <<>>),
                                       summary |-> Get(ci, "summary", "")],
                  !.critical_issues_enum = Get(d, "critical_issues_enum", "none")]

\* lines 79-82
ExtractStructural(d, r) ==
    LET st == SubDict(d, "structural_analysis")
    IN  [r EXCEPT !.structural_analysis =
            [section_order |-> Get(st, "section_order", ""),
             layout |-> Get(st, "layout", ""),
             broken_layouts |-> Get(st, "broken_layouts", "")]]

\* lines 85-91
ExtractVisualChanges(d, r) ==
    LET vc == SubDict(d, "visual_changes")
    IN  [r EXCEPT !.visual_changes =
            [diff_highlights |-> Get(vc, "diff_highlights", <<>>),
             animation_issues |-> Get(vc, "animation_issues", ""),
             conclusion |-> Get(vc, "conclusion", "")],
                  !.visual_changes_enum = Get(d, "visual_changes_enum", "none")]

\* lines 94-101
ExtractConclusion(d, r) ==
    LET co == SubDict(d, "conclusion")
    IN  [r EXCEPT !.conclusion =
            [critical_issues |-> Get(co, "critical_issues", ""),
             visual_changes |-> Get(co, "visual_changes", ""),
             recommendation |-> Get(co, "recommendation", "pass"),
             summary |-> Get(co, "summary", "")],
                  !.recommendation_enum = Get(d, "recommendation_enum", "pass")]

\* lines 103-107: what the except branch does to the report built so far
ParseFallback(r) ==
    [r EXCEPT !.conclusion.summary = "Error parsing visual analysis",
              !.recommendation_enum = "review_required",
              !.critical_issues_enum = "other_issues"]

\* lines 69-107: the extraction stops at the first sub-record that is not a
\* dict; what was extracted before it stays in the report.
ParseDict(d) ==
    IF ~SubIsDict(d, "critical_issues") THEN ParseFallback(DefaultReport)
    ELSE LET r1 == ExtractCriticalIssues(d, DefaultReport)
         IN  IF ~SubIsDict(d, "structural_analysis") THEN ParseFallback(r1)
             ELSE LET r2 == ExtractStructural(d, r1)
                  IN  IF ~SubIsDict(d, "visual_changes") THEN ParseFallback(r2)
                      ELSE LET r3 == ExtractVisualChanges(d, r2)
                           IN  IF ~SubIsDict(d, "conclusion") THEN ParseFallback(r3)
                               ELSE ExtractConclusion(d, r3)

\* lines 19-109
_parse_analysis_results_internal(va) ==
    CASE va.kind = "str" -> ParseText(va.text)
      [] va.kind = "dict" -> ParseDict(va.val)
      [] OTHER -> ParseFallback(DefaultReport)   \* None.get raises at line 71

\* Mutant: the `elif visual_changes_enum == "minor"` branch is lost.
ResolveStatus_MinorPasses(va) ==
    IF va.kind = "dict"
    THEN IF Get(va.val, "critical_issues_enum", "none") # "none" THEN "fail"
         ELSE IF \/ Get(va.val, "visual_changes_enum", "none") = "significant"
                 \/ Get(va.val, "recommendation_enum", "pass") = "review_required"
              THEN "warning"
              ELSE "pass"
    ELSE "pass"

\* lines 222-248: the status of one page
ResolveStatus(va) ==
    IF va.kind = "dict"
    THEN LET critical_issues_enum == Get(va.val, "critical_issues_enum", "none")
             visual_changes_enum == Get(va.val, "visual_changes_enum", "none")
             recommendation_enum == Get(va.val, "recommendation_enum", "pass")
         IN  IF critical_issues_enum # "none" THEN "fail"
             ELSE IF \/ visual_changes_enum = "significant"
                     \/ recommendation_enum = "review_required"
                  THEN "warning"
                  ELSE IF visual_changes_enum = "minor" THEN "warning"
                       ELSE "pass"
    ELSE LET analysis_text ==
                 IF va.kind = "str" THEN Lower(va.text) ELSE <<"none">>  \* str(None).lower()
         IN  IF \/ Contains(analysis_text, <<"missing", "sections">>)
                \/ Contains(analysis_text, <<"critical">>)
             THEN "fail"
             ELSE IF \/ Contains(analysis_text, <<"significant", "changes">>)
                     \/ Contains(analysis_text, <<"review", "required">>)
                  THEN "warning"
                  ELSE "pass"

\* lines 141-155: the status of the single-page report
SingleStatus(va, parsed_report) ==
    IF parsed_report.critical_issues_enum = "other_issues" THEN "fail"
    ELSE IF va.kind = "dict" /\ "status_enum" \in DOMAIN va.val THEN va.val["status_enum"]
    ELSE IF parsed_report.critical_issues_enum # "none" THEN "fail"
    ELSE IF parsed_report.visual_changes_enum = "significant" THEN "warning"
    ELSE IF parsed_report.visual_changes_enum = "minor" THEN "pass"
    ELSE "none"

\* lines 111-180
parse_analysis_results(base_url, preview_url, pr_number, repository, va, image_refs) ==
    LET parsed_report == _parse_analysis_results_internal(va)
        status == SingleStatus(va, parsed_report)
    IN  [url |-> base_url,
         preview_url |-> preview_url,
         repository |-> repository,
         pr_number |-> pr_number,
         timestamp |-> FreshTime,
         id |-> "uuid4",
         created_at |-> Null,
         user_id |-> Null,
         status |-> status,
         status_enum |-> status,
         critical_issues |-> parsed_report.critical_issues,
         critical_issues_enum |-> parsed_report.critical_issues_enum,
         structural_analysis |-> parsed_report.structural_analysis,
         visual_changes |-> parsed_report.visual_changes,
         visual_changes_enum |-> parsed_report.visual_changes_enum,
         conclusion |-> parsed_report.conclusion,
         recommendation_enum |-> parsed_report.recommendation_enum,
         image_refs |-> image_refs]

\* lines 214-268: one iteration of the loop
MakePageReport(page_result) ==
    LET parsed_report == _parse_analysis_results_internal(page_result.visual_analysis)
    IN  [page_path |-> page_result.page_path,
         url |-> page_result.base_url,
         preview_url |-> page_result.pr_url,
         status |-> ResolveStatus(page_result.visual_analysis),
         critical_issues |-> parsed_report.critical_issues,
         structural_analysis |-> parsed_report.structural_analysis,
         visual_changes |-> parsed_report.visual_changes,
         conclusion |-> parsed_report.conclusion,
         image_refs |-> GetNone(page_result, "image_refs")]

\* lines 182-273
parse_multi_page_analysis_results(pr_number, repository, results) ==
    [test_data |-> [pr_number |-> pr_number, repository |-> repository,
                    timestamp |-> FreshTime],
     reports |-> [i \in 1..Len(results) |-> MakePageReport(results[i])]]

---------------------------------------------------------------------------
(* analysis/vision.py : determine_status_from_visual_analysis, lines 10-59 *)

\* `not visual_analysis`: None, the empty dict and the empty string are falsy
Falsy(va) ==
    \/ va.kind = "none"
    \/ va.kind = "dict" /\ DOMAIN va.val = {}
    \/ va.kind = "str" /\ va.text = <<>>

\* lines 41-49: the classification of a free text
LegacyTextStatus(text) ==
    LET analysis_text == Lower(text)
    IN  IF \/ Contains(analysis_text, <<"missing", "sections">>)
           \/ Contains(analysis_text, <<"critical">>)
        THEN "fail"
        ELSE IF \/ /\ Contains(analysis_text, <<"significant", "changes">>)
                   /\ ~Contains(analysis_text, <<"no", "significant", "changes">>)
                \/ Contains(analysis_text, <<"review", "required">>)
             THEN "warning"
             ELSE "pass"

\* lines 52-57
StatusEmoji(status) ==
    CASE status = "pass" -> "[check]"
      [] status = "warning" -> "[warning]"
      [] status = "fail" -> "[cross]"
      [] OTHER -> "[question]"

\* lines 20-50: the status; line 20 returns "none" for everything that is
\* falsy or not a dict, so the else of line 39 is never taken.
determine_status_from_visual_analysis(va) ==
    IF Falsy(va) \/ va.kind # "dict" THEN "none"
    ELSE IF va.kind = "dict"
    THEN LET critical_issues_enum == Get(va.val, "critical_issues_enum", "none")
             visual_changes_enum == Get(va.val, "visual_changes_enum", "none")
             recommendation_enum == Get(va.val, "recommendation_enum", "pass")
         IN  IF critical_issues_enum # "none" THEN "fail"
             ELSE IF \/ visual_changes_enum = "significant"
                     \/ recommendation_enum = "review_required"
                  THEN "warning"
                  ELSE IF visual_changes_enum = "minor" THEN "warning"
                       ELSE "pass"
    ELSE LegacyTextStatus(va.text)

---------------------------------------------------------------------------
(* github/pr_comments.py : get_test_status, lines 14-52 *)

\* Python truthiness of a status value
Truthy(v) == v \notin {Null, ""}

\* lines 35, 41, 47: report.get('status') or report.get('status_enum', 'none')
ReportStatusOf(report) ==
    IF Truthy(GetNone(report, "status"))
    THEN report["status"]
    ELSE Get(report, "status_enum", "none")

\* Mutant: the warning loop runs before the fail loop.
get_test_status_WarningFirst(reports) ==
    IF Len(reports) = 0 THEN "none"
    ELSE IF \E i \in 1..Len(reports) : ReportStatusOf(reports[i]) = "warning" THEN "warning"
    ELSE IF \E i \in 1..Len(reports) : ReportStatusOf(reports[i]) = "fail" THEN "fail"
    ELSE IF \E i \in 1..Len(reports) : ReportStatusOf(reports[i]) = "pass" THEN "pass"
    ELSE "none"

\* lines 30-52: three passes over the list, in priority order
get_test_status(reports) ==
    IF Len(reports) = 0 THEN "none"
    ELSE IF \E i \in 1..Len(reports) : ReportStatusOf(reports[i]) = "fail" THEN "fail"
    ELSE IF \E i \in 1..Len(reports) : ReportStatusOf(reports[i]) = "warning" THEN "warning"
    ELSE IF \E i \in 1..Len(reports) : ReportStatusOf(reports[i]) = "pass" THEN "pass"
    ELSE "none"

---------------------------------------------------------------------------
(* github/pr_comments.py : post_pr_comment, lines 76-142 *)
(* A comment body is a sequence of text pieces; str.startswith is prefix   *)
(* on the pieces.                                                          *)

StartsWith(body, prefix) ==
    /\ Len(body) >= Len(prefix)
    /\ SubSeq(body, 1, Len(prefix)) = prefix

\* lines 119-122: the four prefixes the scan recognises
Branding == <<"Information about visual testing analysis provided by [bruniai]">>
HeaderPass == <<"#", " ", "[check]", " Visual Testing Report">>
HeaderWarning == <<"#", " ", "[warning]", " Visual Testing Report">>
HeaderFail == <<"#", " ", "[cross]", " Visual Testing Report">>

SentinelPrefixes == {Branding, HeaderPass, HeaderWarning, HeaderFail}

\* lines 119-122: the condition of the scan
IsToolComment(body) ==
    \/ StartsWith(body, Branding)
    \/ StartsWith(body, HeaderPass)
    \/ StartsWith(body, HeaderWarning)
    \/ StartsWith(body, HeaderFail)

\* Mutant: the scan has no break, the last match wins.
FindExisting_LastMatch(fetched) ==
    IF \E i \in 1..Len(fetched) : IsToolComment(fetched[i].body)
    THEN LET i == CHOOSE i \in 1..Len(fetched) :
                    /\ IsToolComment(fetched[i].body)
                    /\ \A j \in (i + 1)..Len(fetched) : ~IsToolComment(fetched[j].body)
         IN  fetched[i].id
    ELSE 0

\* lines 115-124: existing_comment_id, 0 standing for None (`if
\* existing_comment_id:` treats both alike); the loop breaks at the first match.
FindExisting(fetched) ==
    IF \E i \in 1..Len(fetched) : IsToolComment(fetched[i].body)
    THEN LET i == CHOOSE i \in 1..Len(fetched) :
                    /\ IsToolComment(fetched[i].body)
                    /\ \A j \in 1..(i - 1) : ~IsToolComment(fetched[j].body)
         IN  fetched[i].id
    ELSE 0

\* lines 96-98: the artifacts link is appended when GITHUB_RUN_ID is set
AddArtifactsLink(summary, run_id) ==
    IF run_id # Null THEN summary \o <<"View Artifacts", run_id>> ELSE summary

\* Mutant: only server errors count as a failed fetch.
FetchFailed_OnlyServerErrors(status_code) == status_code >= 500

\* line 110
FetchFailed(status_code) == status_code # 200

\* Mutant: a new comment is created on every call.
WriteRequest_AlwaysCreate(existing_comment_id, body) ==
    [method |-> "POST", id |-> 0, body |-> body]

\* lines 126-137: the one write request of a call
WriteRequest(existing_comment_id, body) ==
    IF existing_comment_id # 0
    THEN [method |-> "PATCH", id |-> existing_comment_id, body |-> body]
    ELSE [method |-> "POST", id |-> 0, body |-> body]

\* GitHub's side of PATCH /issues/comments/{id} answered 200
EditComment(list, id, body) ==
    [i \in 1..Len(list) |-> IF list[i].id = id THEN [list[i] EXCEPT !.body = body]
                                                ELSE list[i]]

\* GitHub's side of POST /issues/{n}/comments answered 201
CreateComment(list, id, body) == Append(list, [id |-> id, body |-> body])

\* runner/__main__.py lines 245-269: final_summary opens with the branding line
MainSummary(content) ==
    Branding \o <<"(https://www.brunivisual.com/)", "**Testing Summary**", content>>

---------------------------------------------------------------------------
(* github/pr_comments.py : the markdown renderers, lines 144-306 *)
(* A rendering is the list of its lines, each line a sequence of pieces.   *)

\* str.title() of the four statuses
Title(status) ==
    CASE status = "pass" -> "Pass"
      [] status = "warning" -> "Warning"
      [] status = "fail" -> "Fail"
      [] status = "none" -> "None"

\* lines 155 and 265: "## <emoji> Visual Testing Report - <Status>"
HeaderLine(status) ==
    <<"#", "#", " ", StatusEmoji(status), " Visual Testing Report", " - ", Title(status)>>

\* lines 144-235: the header of one analysis; the sections that follow the
\* header (lines 158-235) are kept as one line.
format_visual_analysis_to_markdown(va) ==
    IF Falsy(va) \/ va.kind # "dict"
    THEN << <<"[cross]", " **Error**: No visual analysis data available">> >>
    ELSE << HeaderLine(determine_status_from_visual_analysis(va)),
            <<"*1 page analyzed by [bruniai]">>,
            <<"details of the analysis">> >>

\* line 284: one row of the summary table
TableRow(report, i) ==
    LET status == determine_status_from_visual_analysis(VaDict(report))
        page_path == Get(report, "page_path", "Page " \o ToString(i))
    IN  <<"| ", page_path, " | ", StatusEmoji(status), " ", status, " |">>

\* lines 295-303: the collapsible block of one page
PageBlock(report, i) ==
    LET status == determine_status_from_visual_analysis(VaDict(report))
        page_path == Get(report, "page_path", "Page " \o ToString(i))
    IN  << <<"<details>">>,
           <<"<summary>", StatusEmoji(status), " Page ", ToString(i), ": ", page_path,
             " (", status, ")", "</summary>">> >>
        \o format_visual_analysis_to_markdown(VaDict(report))
        \o << <<"</details>">> >>

\* lines 289-304: the blocks of pages i, i + 1, ...
RECURSIVE Blocks(_, _)
Blocks(reports, i) ==
    IF i > Len(reports) THEN <<>> ELSE PageBlock(reports[i], i) \o Blocks(reports, i + 1)

\* lines 237-306
format_multi_page_analysis_to_markdown(reports, report_url) ==
    IF Len(reports) = 0
    THEN << <<"[cross]", " **Error**: No analysis data available">> >>
    ELSE LET overall == get_test_status(reports)    \* overall_status, line 251
         IN  << HeaderLine(overall),
                <<"*", ToString(Len(reports)), " pages analyzed by [bruniai]">> >>
             \o (IF report_url # Null THEN << <<"View Artifacts", report_url>> >> ELSE <<>>)
             \o << <<"---">>, <<"#", "#", " ", "[chart]", " Summary">>,
                    <<"| Page | Status |">> >>
             \o [i \in 1..Len(reports) |-> TableRow(reports[i], i)]
             \o Blocks(reports, 1)

\* "\n".join(markdown_parts): the pieces of the whole text
RECURSIVE JoinLines(_)
JoinLines(lines) ==
    IF lines = <<>> THEN <<>>
    ELSE IF Len(lines) = 1 THEN Head(lines)
    ELSE Head(lines) \o <<"\n">> \o JoinLines(Tail(lines))

---------------------------------------------------------------------------
(* reporter/reporter.py : BruniReporter.send_multi_page_report, lines 14-93 *)

\* line 33
max_chunk_size == 1

\* Mutant: the chunks are built back to front.
MakeChunks_Reversed(reports) ==
    LET n == (Len(reports) + max_chunk_size - 1) \div max_chunk_size
    IN  [k \in 1..n |->
            SubSeq(reports, (n - k) * max_chunk_size + 1,
                   IF (n - k + 1) * max_chunk_size < Len(reports)
                   THEN (n - k + 1) * max_chunk_size ELSE Len(reports))]

\* line 35: reports[i:i + max_chunk_size] for i in range(0, len(reports), max_chunk_size)
MakeChunks(reports) ==
    LET n == (Len(reports) + max_chunk_size - 1) \div max_chunk_size
    IN  [k \in 1..n |->
            SubSeq(reports, (k - 1) * max_chunk_size + 1,
                   IF k * max_chunk_size < Len(reports)
                   THEN k * max_chunk_size ELSE Len(reports))]

\* lines 45-54: the payload of one chunk; test_id is a key only when set
MakePayload(report, chunks, chunk_index, test_id) ==
    [reports |-> chunks[chunk_index + 1],
     test_data |-> report.test_data,
     chunk_index |-> chunk_index,
     total_chunks |-> Len(chunks)]
    @@ (IF test_id # Null THEN [test_id |-> test_id] ELSE EmptyDict)

\* Mutant: a failed chunk is logged and the loop goes on.
ResponseFails_Never(response) == FALSE

\* line 65
ResponseFails(response) == ~response.ok

\* response.text()
ResponseText(response) == IF response.json THEN "raw json text" ELSE response.text

\* Mutant: the id is read from the top level of the response.
ExtractTestId_TopLevel(response_data) ==
    [raised |-> FALSE, id |-> GetNone(response_data, "id")]

\* line 80: response_data.get('test').get('id'); None.get raises AttributeError
ExtractTestId(response_data) ==
    IF "test" \notin DOMAIN response_data \/ response_data["test"].kind # "object"
    THEN [raised |-> TRUE, id |-> Null]
    ELSE [raised |-> FALSE, id |-> GetNone(response_data["test"].val, "id")]

\* lines 72-87: what an ok answer does to all_responses and test_id. The
\* bare except also catches what line 80 raises, after line 76 has appended.
HandleOk(locals, response) ==
    IF response.json
    THEN LET appended == Append(locals.all_responses, response.data)
             extracted == ExtractTestId(response.data)
         IN  IF locals.chunk_index = 0 /\ locals.test_id = Null
             THEN IF extracted.raised
                  THEN [locals EXCEPT !.all_responses =
                            Append(appended, [message |-> ResponseText(response)])]
                  ELSE [locals EXCEPT !.all_responses = appended,
                                      !.test_id = extracted.id]
             ELSE [locals EXCEPT !.all_responses = appended]
    ELSE [locals EXCEPT !.all_responses =
                Append(@, [message |-> ResponseText(response)])]

---------------------------------------------------------------------------
(* Oracle answers fed to analyze_images_with_vision *)

MaxSections == 1

Absent == "<absent>"

\* The dict with key k bound to v, or the empty dict when v is Absent.
Opt(k, v) == IF v = Absent THEN EmptyDict ELSE [x \in {k} |-> v]

EnumInputs(valid) == valid \cup {"bogus", Null, Absent}

SectionInputs ==
    {[name |-> "hero"] @@ Opt("status", st) :
        st \in {"Present", "Missing", "bogus", Absent}}

SectionLists ==
    UNION {[1..n -> SectionInputs] : n \in 0..MaxSections}

CriticalIssuesInputs ==
    {EmptyDict, [critical_issues |-> JNull],
     [critical_issues |-> JObject([summary |-> "s"])]}
    \cup {[critical_issues |-> JObject([summary |-> "s", sections |-> ss])] :
            ss \in SectionLists}

\* What the oracle may say about the fields the caller owns.
IdentityInputs ==
    {EmptyDict,
     [id |-> "oracle", url |-> "oracle", preview_url |-> "oracle",
      pr_number |-> "oracle", repository |-> "oracle", timestamp |-> "oracle",
      created_at |-> "oracle", user_id |-> "oracle"]}

OracleObjects ==
    {Opt("status_enum", se) @@ Opt("critical_issues_enum", ce)
        @@ Opt("visual_changes_enum", ve) @@ Opt("recommendation_enum", re)
        @@ Opt("status", st) @@ ci @@ ident :
        se \in EnumInputs(valid_status_enum),
        ce \in EnumInputs(valid_critical_issues_enum),
        ve \in EnumInputs(valid_visual_changes_enum),
        re \in EnumInputs(valid_recommendation_enum),
        st \in {"legacy text", Absent},
        ci \in CriticalIssuesInputs,
        ident \in IdentityInputs}

RawInputs ==
    {[kind |-> "text"], [kind |-> "array"]}
    \cup {[kind |-> "object", val |-> d] : d \in OracleObjects}

Pending == [kind |-> "pending"]

VisionIdle ==
    /\ raw = [kind |-> "text"]
    /\ outcome = Pending

ReportIdle ==
    /\ page_results = <<>>
    /\ multi_page_report = Pending
    /\ report_data = Pending

AggIdle ==
    /\ agg_reports = <<>>
    /\ overall_status = Null

MaxRuns == 2

Runs == 1..MaxRuns

IdleRun ==
    [pc |-> "idle", body |-> <<>>, before |-> <<>>, fetched |-> <<>>, calls |-> <<>>,
     result |-> "none"]

PubIdle ==
    /\ comments = <<>>
    /\ next_id = 1
    /\ runs = [p \in Runs |-> IdleRun]

NoResult == [kind |-> "none yet"]

IdleSend ==
    [pc |-> "idle", chunks |-> <<>>, chunk_index |-> 0, test_id |-> Null,
     all_responses |-> <<>>, result |-> NoResult]

SendIdle ==
    /\ token = ""
    /\ send = IdleSend
    /\ wire = <<>>

---------------------------------------------------------------------------
(* analysis/sections.py : analyze_sections_side_by_side, lines 57-175 *)

max_retries == 3
retry_delay == 15

\* How one `await asyncio.wait_for(Runner.run(...), timeout=120)` can end:
\* a result, asyncio.TimeoutError, an AgentsException whose text mentions
\* browser_navigate, any other AgentsException, any other Exception.
OracleOutcomes == {"ok", "timeout", "agents_navigate", "agents_other", "error"}

\* extract_real_dom_info never raises: it returns the elements, or [] on any error.
DomInfos == {"elements", "empty"}

\* Mutant: the last attempt is retried like the others.
MayRetry_Always(attempt) == attempt < max_retries

\* lines 153, 161, 171: attempt < max_retries - 1
MayRetry(attempt) == attempt < max_retries - 1

\* lines 143-175: what the handlers do with the way the call of this attempt
\* ended. "return" is line 150, "retry" is sleep(retry_delay) and continue,
\* "raise" leaves the function with an exception.
HandleOutcome(attempt, o) ==
    CASE o = "ok" -> "return"
      [] o = "timeout" -> IF MayRetry(attempt) THEN "retry" ELSE "raise"
      [] o = "agents_navigate" -> IF MayRetry(attempt) THEN "retry" ELSE "raise"
      [] o = "agents_other" -> "raise"
      [] o = "error" -> IF MayRetry(attempt) THEN "retry" ELSE "raise"

\* The exception that leaves the function: line 158 (re-raised at 175),
\* line 167, line 175.
RaisedError(o) ==
    CASE o = "timeout" -> "Section analysis timed out after all retries"
      [] o \in {"agents_navigate", "agents_other"} -> "AgentsException"
      [] OTHER -> "Exception"

CallEvent(n, dom, o) == [ev |-> "call", n |-> n, dom |-> dom, outcome |-> o]
SleepEvent(seconds) == [ev |-> "sleep", seconds |-> seconds]

StartSect == [pc |-> "attempt", attempt |-> 0, result |-> [kind |-> "none yet"]]

IdleSect == [pc |-> "idle", attempt |-> 0, result |-> [kind |-> "none yet"]]

SectIdle ==
    /\ sect = IdleSect
    /\ oracle_log = <<>>

---------------------------------------------------------------------------
(* core/rate_limit.py : rate_limit, lines 8-23 *)

calls_per_minute == 20

\* line 9: 60.0 / calls_per_minute, in whole seconds
min_interval == 60 \div calls_per_minute

MaxCalls == 3
MaxTicks == 8

Callers == 1..MaxCalls

\* time.time() when the first call arrives: the Unix time, far more than
\* min_interval past the initial last_call_time of 0.
StartOfRun == 2 * min_interval

\* Mutant: the wrapper never waits.
MustWait_Never(delta) == FALSE

\* line 18
MustWait(delta) == delta < min_interval

\* line 19: the argument of asyncio.sleep
SleepFor(delta) == min_interval - delta

IdleCall == [pc |-> "idle", now |-> 0, wake |-> 0]

RateIdle ==
    /\ clock = 0
    /\ last_call_time = 0
    /\ rl_calls = [c \in Callers |-> IdleCall]
    /\ func_starts = <<>>

---------------------------------------------------------------------------
(* image_processing/diff.py : generate_diff_image, lines 7-47 *)

\* An image is [kind |-> "image", mode, width, height, px] with px a function
\* from <<x, y>> (1-based, x across, y down) to the pixel's channel tuple.
\* A file that is no image is [kind |-> "bytes"]; a missing file is a path
\* outside DOMAIN of the file system.

White == <<255, 255, 255>>
Transparent == <<0, 0, 0, 0>>
OpaqueRed == <<255, 0, 0, 255>>

Pixels(width, height) == (1..width) \X (1..height)

MakeImage(mode, width, height, px) ==
    [kind |-> "image", mode |-> mode, width |-> width, height |-> height, px |-> px]

\* Image.convert('RGB') on one pixel: RGBA drops the alpha channel, L repeats
\* the grey level.
ConvertPixel(mode, p) ==
    CASE mode = "RGB" -> p
      [] mode = "RGBA" -> <<p[1], p[2], p[3]>>
      [] mode = "L" -> <<p[1], p[1], p[1]>>

\* lines 9-10: Image.open(path) raises when the file is missing or is no image
Readable(fs, path) == path \in DOMAIN fs /\ fs[path].kind = "image"

\* lines 9-10: Image.open(path).convert('RGB')
OpenRGB(fs, path) ==
    LET img == fs[path]
    IN  MakeImage("RGB", img.width, img.height,
                  [xy \in Pixels(img.width, img.height) |-> ConvertPixel(img.mode, img.px[xy])])

\* Mutant: the first argument wins.
Max_First(a, b) == a

\* lines 13-14: max
Max(a, b) == IF a >= b THEN a ELSE b

\* lines 17-22: Image.new('RGB', (max_width, max_height), 'white') and
\* paste(img, (0, 0))
PasteOnWhite(img, max_width, max_height) ==
    MakeImage("RGB", max_width, max_height,
              [xy \in Pixels(max_width, max_height) |->
                  IF xy[1] <= img.width /\ xy[2] <= img.height THEN img.px[xy] ELSE White])

Abs(n) == IF n < 0 THEN 0 - n ELSE n

\* line 29: ImageChops.difference, the per-channel absolute difference
Difference(a, b) ==
    [xy \in DOMAIN a.px |-> [c \in 1..3 |-> Abs(a.px[xy][c] - b.px[xy][c])]]

\* Mutant: only the red channel is looked at.
Mask_RedOnly(diff) == [xy \in DOMAIN diff |-> diff[xy][1] # 0]

\* lines 32-33: (diff_np != 0).any(axis=2)
Mask(diff) == [xy \in DOMAIN diff |-> \E c \in 1..3 : diff[xy][c] # 0]

\* Mutant: the array starts out opaque black instead of all zero.
Highlight_OpaqueGround(mask, max_width, max_height) ==
    MakeImage("RGBA", max_width, max_height,
              [xy \in Pixels(max_width, max_height) |->
                  IF mask[xy] THEN OpaqueRed ELSE <<0, 0, 0, 255>>])

\* lines 36-43: zeros, then R and alpha set to 255 where the mask is set
Highlight(mask, max_width, max_height) ==
    MakeImage("RGBA", max_width, max_height,
              [xy \in Pixels(max_width, max_height) |->
                  IF mask[xy] THEN OpaqueRed ELSE Transparent])

\* A path is a sequence of pieces; str.replace(old, new) for one-piece old.
Replace(path, old, new) ==
    [i \in 1..Len(path) |-> IF path[i] = old THEN new ELSE path[i]]

\* lines 25-26: path.replace('.png', '-resized.png')
ResizedPath(path) == Replace(path, ".png", "-resized.png")

\* lines 13-46 on two readable files: the file system after the three saves
DiffOutputs(fs, before_path, after_path, diff_output_path) ==
    LET img1 == OpenRGB(fs, before_path)
        img2 == OpenRGB(fs, after_path)
        max_width == Max(img1.width, img2.width)
        max_height == Max(img1.height, img2.height)
        new_img1 == PasteOnWhite(img1, max_width, max_height)
        new_img2 == PasteOnWhite(img2, max_width, max_height)
        fs1 == Put(fs, ResizedPath(before_path), new_img1)
        fs2 == Put(fs1, ResizedPath(after_path), new_img2)
        mask == Mask(Difference(new_img1, new_img2))
    IN  Put(fs2, diff_output_path, Highlight(mask, max_width, max_height))

\* The exception Image.open raises on the file at path
OpenError(fs, path) ==
    IF path \in DOMAIN fs THEN "UnidentifiedImageError" ELSE "FileNotFoundError"

\* Mutant: a file that cannot be read is logged and the call returns.
generate_diff_image_CatchAll(fs, before_path, after_path, diff_output_path) ==
    IF Readable(fs, before_path) /\ Readable(fs, after_path)
    THEN [kind |-> "returned",
          files |-> DiffOutputs(fs, before_path, after_path, diff_output_path)]
    ELSE [kind |-> "returned", files |-> fs]

\* lines 7-47: the outcome of the call and the file system it leaves
generate_diff_image(fs, before_path, after_path, diff_output_path) ==
    IF ~Readable(fs, before_path)
    THEN [kind |-> "raised", error |-> OpenError(fs, before_path), files |-> fs]
    ELSE IF ~Readable(fs, after_path)
    THEN [kind |-> "raised", error |-> OpenError(fs, after_path), files |-> fs]
    ELSE [kind |-> "returned",
          files |-> DiffOutputs(fs, before_path, after_path, diff_output_path)]

\* __main__.py lines 137-139
base_screenshot == <<"base_screenshot_home", ".png">>
pr_screenshot == <<"pr_screenshot_home", ".png">>
diff_path == <<"diff_home", ".png">>

MaxPixels == 3

\* The pixels an image file of the mode may hold
Palette(mode) ==
    CASE mode = "RGB" -> {White, <<255, 255, 254>>}
      [] mode = "RGBA" -> {<<255, 255, 255, 0>>, <<0, 0, 0, 255>>}

Sizes == {wh \in (1..MaxPixels) \X (1..MaxPixels) : wh[1] * wh[2] <= MaxPixels}

ImageInputs ==
    UNION {{MakeImage(mode, wh[1], wh[2], px) : px \in [Pixels(wh[1], wh[2]) -> Palette(mode)]} :
            mode \in {"RGB", "RGBA"}, wh \in Sizes}

\* What may lie at an input path: nothing, a file that is no image, an image.
FileInputs == {[kind |-> "absent"], [kind |-> "bytes"]} \cup ImageInputs

\* The file system holding content at path (nothing when content is absent)
WithFile(fs, path, content) ==
    IF content.kind = "absent" THEN fs ELSE Put(fs, path, content)

NoFiles == [x \in {} |-> [kind |-> "bytes"]]

IdleDiff ==
    [pc |-> "idle", before_path |-> <<>>, after_path |-> <<>>, diff_output_path |-> <<>>,
     files0 |-> NoFiles, result |-> [kind |-> "none yet"]]

DiffIdle ==
    /\ files = NoFiles
    /\ diff_run = IdleDiff

RenderIdle ==
    /\ render_input = [kind |-> "none"]
    /\ markdown = Pending

NoShots == [x \in {} |-> [kind |-> "png"]]

IdleMain == [pc |-> "idle"]

MainIdle ==
    /\ main = IdleMain
    /\ shots = NoShots

VisionInit ==
    /\ raw \in RawInputs
    /\ outcome = Pending
    /\ ReportIdle
    /\ AggIdle
    /\ PubIdle
    /\ SendIdle
    /\ SectIdle
    /\ RateIdle
    /\ DiffIdle
    /\ RenderIdle
    /\ MainIdle

\* One call of analyze_images_with_vision on the oracle's answer.
Analyze ==
    /\ outcome = Pending
    /\ outcome' = analyze_images_with_vision(raw)
    /\ UNCHANGED <<raw, reportVars, aggVars, pubVars, sendVars, sectVars, rateVars, diffVars, renderVars, mainVars>>

VisionNext == Analyze

SpecVision == VisionInit /\ [][VisionNext]_vars

---------------------------------------------------------------------------
(* Page results fed to parse_multi_page_analysis_results *)

VaEnumInputs(valid) == valid \cup {"bogus", Absent}

\* The sub-records of a structured visual analysis: none given, all given,
\* or critical_issues given as null.
VaShapes ==
    {EmptyDict,
     [critical_issues |-> JObject([sections |-> <<[name |-> "hero", status |-> "Present"]>>,
                                   summary |-> "ok"]),
      structural_analysis |-> JObject([section_order |-> "same", layout |-> "same",
                                       broken_layouts |-> ""]),
      visual_changes |-> JObject([diff_highlights |-> <<"button">>, animation_issues |-> "",
                                  conclusion |-> "small"]),
      conclusion |-> JObject([critical_issues |-> "", visual_changes |-> "",
                              recommendation |-> "ok", summary |-> "fine"])],
     [critical_issues |-> JNull]}

VaDicts ==
    {Opt("critical_issues_enum", ce) @@ Opt("visual_changes_enum", ve)
        @@ Opt("recommendation_enum", re) @@ Opt("status_enum", se) @@ shape :
        se \in VaEnumInputs(valid_status_enum),
        ce \in VaEnumInputs(valid_critical_issues_enum),
        ve \in VaEnumInputs(valid_visual_changes_enum),
        re \in VaEnumInputs(valid_recommendation_enum),
        shape \in VaShapes}

VaTexts ==
    {<<>>, <<"Missing", "sections", "detected">>, <<"Significant", "changes", "detected">>,
     <<"No", "significant", "changes", "detected">>, <<"Review", "required">>,
     <<"No", "critical", "issues">>, <<"Minor", "changes">>, <<"no", "issues">>}

VisualAnalyses ==
    {VaDict(d) : d \in VaDicts} \cup {VaText(t) : t \in VaTexts} \cup {VaNone}

PageResult(path, va, refs) ==
    [page_path |-> path, base_url |-> <<"base", path>>, pr_url |-> <<"pr", path>>,
     visual_analysis |-> va, sections_analysis |-> "sections"] @@ refs

ImageRefInputs == {EmptyDict, [image_refs |-> "refs"]}

\* One page with every kind of visual analysis
ResolveInit ==
    /\ page_results \in {<<PageResult("/", va, refs)>> :
                            va \in VisualAnalyses, refs \in ImageRefInputs}
    /\ multi_page_report = Pending
    /\ report_data = Pending
    /\ VisionIdle
    /\ AggIdle
    /\ PubIdle
    /\ SendIdle
    /\ SectIdle
    /\ RateIdle
    /\ DiffIdle
    /\ RenderIdle
    /\ MainIdle

\* runner/__main__.py lines 311-315: the call of parse_multi_page_analysis_results
ParseReport ==
    /\ multi_page_report = Pending
    /\ multi_page_report' =
            parse_multi_page_analysis_results("pr_number", "repository", page_results)
    /\ UNCHANGED <<page_results, report_data, visionVars, aggVars, pubVars, sendVars, sectVars, rateVars, diffVars, renderVars, mainVars>>

\* One call of parse_analysis_results on the same page
ParseSingle ==
    /\ report_data = Pending
    /\ report_data' =
            LET page_result == page_results[1]
            IN  parse_analysis_results(page_result.base_url, page_result.pr_url, "pr_number",
                                       "repository", page_result.visual_analysis,
                                       GetNone(page_result, "image_refs"))
    /\ UNCHANGED <<page_results, multi_page_report, visionVars, aggVars, pubVars, sendVars, sectVars, rateVars, diffVars, renderVars, mainVars>>

ResolveNext == ParseReport \/ ParseSingle

SpecResolve == ResolveInit /\ [][ResolveNext]_vars

---------------------------------------------------------------------------
(* Reports fed to get_test_status *)

MaxReports == 2

AggReportInputs ==
    {Opt("status", st) @@ Opt("status_enum", se) @@ [page_path |-> "/"] :
        st \in valid_status_enum \cup {Null, Absent},
        se \in valid_status_enum \cup {Absent}}

AggInit ==
    /\ agg_reports \in UNION {[1..n -> AggReportInputs] : n \in 0..MaxReports}
    /\ overall_status = Null
    /\ VisionIdle
    /\ ReportIdle
    /\ PubIdle
    /\ SendIdle
    /\ SectIdle
    /\ RateIdle
    /\ DiffIdle
    /\ RenderIdle
    /\ MainIdle

\* One call of get_test_status
Aggregate ==
    /\ overall_status = Null
    /\ overall_status' = get_test_status(agg_reports)
    /\ UNCHANGED <<agg_reports, visionVars, reportVars, pubVars, sendVars, sectVars, rateVars, diffVars, renderVars, mainVars>>

AggNext == Aggregate

SpecAggregate == AggInit /\ [][AggNext]_vars

---------------------------------------------------------------------------
(* Calls of post_pr_comment against one PR *)

MaxInitialComments == 2

\* What a PR may hold before the tool runs: somebody's remark, a comment of
\* an earlier version of the tool, a comment of the current one.
InitialBodies ==
    {<<"LGTM">>, HeaderPass \o <<" - old">>, MainSummary("old")}

InitialComments ==
    UNION {{[i \in 1..n |-> [id |-> i, body |-> bodies[i]]] :
                bodies \in [1..n -> InitialBodies]} : n \in 0..MaxInitialComments}

\* What the p-th caller passes as summary: the runner's final_summary of
\* that run, or a rendering of format_multi_page_analysis_to_markdown
\* ("## <emoji> Visual Testing Report ...").
Summaries(p) ==
    {MainSummary(ToString(p)),
     <<"#", "#", " ", "[check]", " Visual Testing Report", " - Pass", ToString(p)>>}

PubInit ==
    /\ comments \in InitialComments
    /\ next_id = Len(comments) + 1
    /\ runs = [p \in Runs |-> IdleRun]
    /\ VisionIdle
    /\ ReportIdle
    /\ AggIdle
    /\ SendIdle
    /\ SectIdle
    /\ RateIdle
    /\ DiffIdle
    /\ RenderIdle
    /\ MainIdle

\* One HTTP request of a call and what came back: an answer with a status
\* code, or no answer (requests raised an exception).
HttpCall(method, id, body, answered, status) ==
    [method |-> method, id |-> id, body |-> body, answered |-> answered, status |-> status]

\* Calls follow one another: a call starts when the one before has ended.
MayStart(p) ==
    /\ runs[p].pc = "idle"
    /\ p > 1 => runs[p - 1].pc = "done"

\* lines 78-93: no token or no GitHub context, the call returns at once
ReturnEarly(p) ==
    /\ runs[p].pc = "idle"
    /\ runs' = [runs EXCEPT ![p] = [@ EXCEPT !.pc = "done", !.before = comments,
                                             !.result = "returned"]]
    /\ UNCHANGED <<comments, next_id, visionVars, reportVars, aggVars, sendVars, sectVars, rateVars, diffVars, renderVars, mainVars>>

\* lines 78-104: context resolved, the body to post is ready
PrepareBody(p) ==
    /\ runs[p].pc = "idle"
    /\ \E summary \in Summaries(p), run_id \in {Null, "456"} :
            runs' = [runs EXCEPT ![p] = [@ EXCEPT !.pc = "started", !.before = comments,
                                                 !.body = AddArtifactsLink(summary, run_id)]]
    /\ UNCHANGED <<comments, next_id, visionVars, reportVars, aggVars, sendVars, sectVars, rateVars, diffVars, renderVars, mainVars>>

\* One run after the other: the call returns at once
PublishSkip(p) == MayStart(p) /\ ReturnEarly(p)

\* One run after the other: the call gets its body ready
PublishStart(p) == MayStart(p) /\ PrepareBody(p)

\* lines 108-124: GET the comment list; requests.get may raise instead of
\* answering; an answer that is not 200 ends the call; an answer that is
\* neither taken as a failure nor a comment list makes the scan raise.
PublishFetch(p) ==
    /\ runs[p].pc = "started"
    /\ \/ runs' = [runs EXCEPT ![p] = [@ EXCEPT !.pc = "done", !.result = "raised",
                        !.calls = Append(@, HttpCall("GET", 0, <<>>, FALSE, 0))]]
       \/ \E status_code \in {200, 403, 500} :
            LET call == HttpCall("GET", 0, <<>>, TRUE, status_code)
            IN  runs' = [runs EXCEPT ![p] =
                    IF FetchFailed(status_code)
                    THEN [@ EXCEPT !.pc = "done", !.result = "returned",
                                   !.calls = Append(@, call)]
                    ELSE IF status_code # 200
                    THEN [@ EXCEPT !.pc = "done", !.result = "raised",
                                   !.calls = Append(@, call)]
                    ELSE [@ EXCEPT !.pc = "fetched", !.fetched = comments,
                                   !.calls = Append(@, call)]]
    /\ UNCHANGED <<comments, next_id, visionVars, reportVars, aggVars, sendVars, sectVars, rateVars, diffVars, renderVars, mainVars>>

\* lines 126-142: one PATCH or one POST; its status is logged either way
PublishWrite(p) ==
    /\ runs[p].pc = "fetched"
    /\ LET req == WriteRequest(FindExisting(runs[p].fetched), runs[p].body)
           Done(answered, status, result) ==
                runs' = [runs EXCEPT ![p] = [@ EXCEPT !.pc = "done", !.result = result,
                            !.calls = Append(@, HttpCall(req.method, req.id, req.body,
                                                         answered, status))]]
       IN  \/ /\ Done(FALSE, 0, "raised")
              /\ UNCHANGED <<comments, next_id>>
           \/ /\ req.method = "PATCH"
              /\ \/ /\ Done(TRUE, 200, "returned")
                    /\ comments' = EditComment(comments, req.id, req.body)
                 \/ /\ Done(TRUE, 404, "returned")
                    /\ comments' = comments
              /\ UNCHANGED next_id
           \/ /\ req.method = "POST"
              /\ \/ /\ Done(TRUE, 201, "returned")
                    /\ comments' = CreateComment(comments, next_id, req.body)
                    /\ next_id' = next_id + 1
                 \/ /\ Done(TRUE, 403, "returned")
                    /\ UNCHANGED <<comments, next_id>>
    /\ UNCHANGED <<visionVars, reportVars, aggVars, sendVars, sectVars, rateVars, diffVars, renderVars, mainVars>>

PubNext ==
    \E p \in Runs : PublishSkip(p) \/ PublishStart(p) \/ PublishFetch(p) \/ PublishWrite(p)

SpecPublish == PubInit /\ [][PubNext]_vars

\* Two workflow runs for the same PR, each a process of its own: nothing in
\* post_pr_comment orders the requests of one run against the other's.
PubConcurrentNext ==
    \E p \in Runs : ReturnEarly(p) \/ PrepareBody(p) \/ PublishFetch(p) \/ PublishWrite(p)

SpecPublishConcurrent == PubInit /\ [][PubConcurrentNext]_vars

---------------------------------------------------------------------------
(* One multi-page report parsed and sent to the backend *)

MaxPages == 3

SendPages ==
    {PageResult("/", VaDict([critical_issues_enum |-> "none", visual_changes_enum |-> "minor",
                             recommendation_enum |-> "pass"]), [image_refs |-> "refs"]),
     PageResult("/about", VaDict([critical_issues_enum |-> "missing_sections",
                                  visual_changes_enum |-> "none",
                                  recommendation_enum |-> "reject"]), EmptyDict),
     PageResult("/legacy", VaText(<<"No", "issues">>), EmptyDict)}

\* What the backend may answer to a chunk
JsonBodies ==
    {[test |-> JObject([id |-> "t1"])], [test |-> JObject([id |-> "t2"])],
     [test |-> JObject([name |-> "unnamed"])], [status |-> "success"],
     [id |-> "r1", status |-> "success"]}

Responses ==
    {[ok |-> TRUE, json |-> TRUE, data |-> d] : d \in JsonBodies}
    \cup {[ok |-> TRUE, json |-> FALSE, text |-> "Success message"],
          [ok |-> FALSE, json |-> FALSE, text |-> "Server Error"]}

SendInit ==
    /\ page_results \in UNION {[1..n -> SendPages] : n \in 0..MaxPages}
    /\ multi_page_report = Pending
    /\ report_data = Pending
    /\ token \in {"", "test-token"}
    /\ send = IdleSend
    /\ wire = <<>>
    /\ VisionIdle
    /\ AggIdle
    /\ PubIdle
    /\ SectIdle
    /\ RateIdle
    /\ DiffIdle
    /\ RenderIdle
    /\ MainIdle

\* lines 28-38: without a token nothing is sent and None is returned
SendStart ==
    /\ multi_page_report # Pending
    /\ send.pc = "idle"
    /\ send' = IF token = ""
               THEN [send EXCEPT !.pc = "returned", !.result = [kind |-> "None"]]
               ELSE [send EXCEPT !.pc = "loop",
                                 !.chunks = MakeChunks(multi_page_report.reports)]
    /\ UNCHANGED <<token, wire, reportVars, visionVars, aggVars, pubVars, sectVars, rateVars, diffVars, renderVars, mainVars>>

\* lines 41-64: the next chunk's request goes out
SendChunk ==
    /\ send.pc = "loop"
    /\ send.chunk_index < Len(send.chunks)
    /\ wire' = Append(wire, [dir |-> "request",
                             payload |-> MakePayload(multi_page_report, send.chunks,
                                                     send.chunk_index, send.test_id)])
    /\ send' = [send EXCEPT !.pc = "awaiting"]
    /\ UNCHANGED <<token, reportVars, visionVars, aggVars, pubVars, sectVars, rateVars, diffVars, renderVars, mainVars>>

\* lines 64-87: the backend's answer arrives and is handled
ReceiveResponse ==
    /\ send.pc = "awaiting"
    /\ \E response \in Responses :
        /\ wire' = Append(wire, [dir |-> "response", response |-> response])
        /\ send' = IF ResponseFails(response)
                   THEN [send EXCEPT !.pc = "raised",
                                     !.result = [kind |-> "raised", error |-> "ValueError"]]
                   ELSE [HandleOk(send, response) EXCEPT
                            !.pc = "loop", !.chunk_index = send.chunk_index + 1]
    /\ UNCHANGED <<token, reportVars, visionVars, aggVars, pubVars, sectVars, rateVars, diffVars, renderVars, mainVars>>

\* lines 89-91: session.post raises aiohttp.ClientError, which is re-raised
ReceiveClientError ==
    /\ send.pc = "awaiting"
    /\ wire' = Append(wire, [dir |-> "error"])
    /\ send' = [send EXCEPT !.pc = "raised",
                            !.result = [kind |-> "raised", error |-> "ClientError"]]
    /\ UNCHANGED <<token, reportVars, visionVars, aggVars, pubVars, sectVars, rateVars, diffVars, renderVars, mainVars>>

\* line 93: the loop is over
SendReturn ==
    /\ send.pc = "loop"
    /\ send.chunk_index = Len(send.chunks)
    /\ send' = [send EXCEPT !.pc = "returned",
                            !.result = [kind |-> "list", val |-> send.all_responses]]
    /\ UNCHANGED <<token, wire, reportVars, visionVars, aggVars, pubVars, sectVars, rateVars, diffVars, renderVars, mainVars>>

\* runner/__main__.py lines 311-318: parse, then send
SendParse ==
    /\ ParseReport
    /\ send.pc = "idle"

SendNext ==
    \/ SendParse
    \/ SendStart
    \/ SendChunk
    \/ ReceiveResponse
    \/ ReceiveClientError
    \/ SendReturn

SpecSend == SendInit /\ [][SendNext]_vars

---------------------------------------------------------------------------
(* analyze_sections_side_by_side: one run against an oracle that may fail *)

SectInit ==
    /\ sect = StartSect
    /\ oracle_log = <<>>
    /\ VisionIdle
    /\ ReportIdle
    /\ AggIdle
    /\ PubIdle
    /\ SendIdle
    /\ RateIdle
    /\ DiffIdle
    /\ RenderIdle
    /\ MainIdle

\* The oracle calls made so far
NumCalls == Cardinality({i \in 1..Len(oracle_log) : oracle_log[i].ev = "call"})

\* lines 62-175, one pass of the loop body up to its return, its raise or
\* its await of asyncio.sleep(retry_delay)
OracleCall ==
    /\ sect.pc = "attempt"
    /\ \E dom \in DomInfos, o \in OracleOutcomes :
        LET n == NumCalls + 1
            what == HandleOutcome(sect.attempt, o)
            called == Append(oracle_log, CallEvent(n, dom, o))
        IN  /\ oracle_log' = IF what = "retry"
                             THEN Append(called, SleepEvent(retry_delay))
                             ELSE called
            /\ sect' = CASE what = "return" ->
                              [sect EXCEPT !.pc = "returned",
                                           !.result = [kind |-> "returned", final_output |-> n]]
                         [] what = "retry" -> [sect EXCEPT !.pc = "sleeping"]
                         [] what = "raise" ->
                              [sect EXCEPT !.pc = "raised",
                                           !.result = [kind |-> "raised", error |-> RaisedError(o)]]
    /\ UNCHANGED <<visionVars, reportVars, aggVars, pubVars, sendVars, rateVars, diffVars, renderVars, mainVars>>

\* The sleep is over and `continue` takes the loop to its next attempt; a
\* loop that has run out of attempts falls off the end and returns None.
RetrySleepDone ==
    /\ sect.pc = "sleeping"
    /\ sect' = IF sect.attempt + 1 < max_retries
               THEN [sect EXCEPT !.pc = "attempt", !.attempt = @ + 1]
               ELSE [sect EXCEPT !.pc = "returned", !.attempt = @ + 1,
                                 !.result = [kind |-> "returned None"]]
    /\ UNCHANGED <<oracle_log, visionVars, reportVars, aggVars, pubVars, sendVars,
                   rateVars, diffVars, renderVars, mainVars>>

SectNext ==
    \/ OracleCall
    \/ RetrySleepDone

SpecSections == SectInit /\ [][SectNext]_vars

---------------------------------------------------------------------------
(* rate_limit: calls made one after another through one wrapper *)

RateInit ==
    /\ clock = StartOfRun
    /\ last_call_time = 0
    /\ rl_calls = [c \in Callers |-> IdleCall]
    /\ func_starts = <<>>
    /\ VisionIdle
    /\ ReportIdle
    /\ AggIdle
    /\ PubIdle
    /\ SendIdle
    /\ SectIdle
    /\ DiffIdle
    /\ RenderIdle
    /\ MainIdle

\* Calls come one after another: call c arrives once the calls before it
\* have returned.
MayCall(c) ==
    /\ rl_calls[c].pc = "idle"
    /\ \A d \in Callers : d < c => rl_calls[d].pc = "done"

\* lines 20-21: last_call_time = time.time(); the wrapped function begins
BeginFunc(c, arrived) ==
    /\ last_call_time' = clock
    /\ func_starts' = Append(func_starts, [caller |-> c, arrived |-> arrived, began |-> clock])

\* lines 16-21 up to the first await: either the sleep or the wrapped function
EnterWrapper(c) ==
    /\ rl_calls[c].pc = "idle"
    /\ LET now == clock
           delta == now - last_call_time
       IN  IF MustWait(delta)
           THEN /\ rl_calls' = [rl_calls EXCEPT ![c] =
                        [pc |-> "sleeping", now |-> now, wake |-> now + SleepFor(delta)]]
                /\ UNCHANGED <<last_call_time, func_starts>>
           ELSE /\ rl_calls' = [rl_calls EXCEPT ![c] =
                        [pc |-> "running", now |-> now, wake |-> now]]
                /\ BeginFunc(c, now)
    /\ UNCHANGED <<clock, visionVars, reportVars, aggVars, pubVars, sendVars, sectVars, diffVars, renderVars, mainVars>>

\* One call after another: call c enters the wrapper
RateCall(c) == MayCall(c) /\ EnterWrapper(c)

\* lines 19-21: asyncio.sleep returns, not before the time asked for
RateWake(c) ==
    /\ rl_calls[c].pc = "sleeping"
    /\ clock >= rl_calls[c].wake
    /\ rl_calls' = [rl_calls EXCEPT ![c].pc = "running"]
    /\ BeginFunc(c, rl_calls[c].now)
    /\ UNCHANGED <<clock, visionVars, reportVars, aggVars, pubVars, sendVars, sectVars, diffVars, renderVars, mainVars>>

\* line 21: the wrapped function returns
RateReturn(c) ==
    /\ rl_calls[c].pc = "running"
    /\ rl_calls' = [rl_calls EXCEPT ![c].pc = "done"]
    /\ UNCHANGED <<clock, last_call_time, func_starts, visionVars, reportVars, aggVars,
                   pubVars, sendVars, sectVars, diffVars, renderVars, mainVars>>

\* A second passes
Tick ==
    /\ clock < StartOfRun + MaxTicks
    /\ clock' = clock + 1
    /\ UNCHANGED <<last_call_time, rl_calls, func_starts, visionVars, reportVars, aggVars,
                   pubVars, sendVars, sectVars, diffVars, renderVars, mainVars>>

RateNext ==
    \/ \E c \in Callers : RateCall(c)
    \/ \E c \in Callers : RateWake(c)
    \/ \E c \in Callers : RateReturn(c)
    \/ Tick

SpecRateLimit == RateInit /\ [][RateNext]_vars

\* Calls that enter the wrapper as concurrent tasks of one event loop: a
\* task runs from one await to the next, and a call may enter while another
\* is in its asyncio.sleep.
RateConcurrentNext ==
    \/ \E c \in Callers : EnterWrapper(c)
    \/ \E c \in Callers : RateWake(c)
    \/ \E c \in Callers : RateReturn(c)
    \/ Tick

SpecRateConcurrent == RateInit /\ [][RateConcurrentNext]_vars

---------------------------------------------------------------------------
(* generate_diff_image: one call on the two screenshots of a page *)

DiffInit ==
    /\ \E b \in FileInputs, a \in FileInputs, same \in BOOLEAN :
        /\ same => a = b
        /\ files = IF same
                   THEN WithFile(NoFiles, base_screenshot, b)
                   ELSE WithFile(WithFile(NoFiles, base_screenshot, b), pr_screenshot, a)
        /\ diff_run = [pc |-> "called", before_path |-> base_screenshot,
                       after_path |-> IF same THEN base_screenshot ELSE pr_screenshot,
                       diff_output_path |-> diff_path,
                       files0 |-> files, result |-> [kind |-> "none yet"]]
    /\ VisionIdle
    /\ ReportIdle
    /\ AggIdle
    /\ PubIdle
    /\ SendIdle
    /\ SectIdle
    /\ RateIdle
    /\ RenderIdle
    /\ MainIdle

\* __main__.py line 158: generate_diff_image(base_screenshot, pr_screenshot, diff_output_path)
GenerateDiff ==
    /\ diff_run.pc = "called"
    /\ LET r == generate_diff_image(files, diff_run.before_path, diff_run.after_path,
                                    diff_run.diff_output_path)
       IN  /\ files' = r.files
           /\ diff_run' = [diff_run EXCEPT !.pc = "done",
                              !.result = IF r.kind = "raised"
                                         THEN [kind |-> "raised", error |-> r.error]
                                         ELSE [kind |-> "returned"]]
    /\ UNCHANGED <<visionVars, reportVars, aggVars, pubVars, sendVars, sectVars, rateVars,
                   renderVars, mainVars>>

DiffNext == GenerateDiff

SpecDiff == DiffInit /\ [][DiffNext]_vars

---------------------------------------------------------------------------
(* Calls of the two markdown renderers *)

MaxRenderReports == 2

\* Reports as the renderers meet them: with enum fields only (the reports
\* of tests/unit/test_pr_comments.py), with a status only (the PageReport
\* of parse_multi_page_analysis_results), with both (the ReportData of
\* parse_analysis_results).
RenderReportInputs ==
    {[page_path |-> "/home"] @@ Opt("critical_issues_enum", ce)
        @@ Opt("visual_changes_enum", ve) :
        ce \in {"none", "missing_sections", Absent}, ve \in {"none", "minor", "significant"}}
    \cup {[page_path |-> "/contact", status |-> st] : st \in valid_status_enum}
    \cup {[page_path |-> "/about", status |-> st, status_enum |-> st,
           critical_issues_enum |-> ce, visual_changes_enum |-> "none",
           recommendation_enum |-> "pass"] :
           st \in {"pass", "fail"}, ce \in {"none", "other_issues"}}

RenderVaInputs ==
    {VaNone, VaDict(EmptyDict), VaText(<<"Missing", "sections", "detected">>)}
    \cup {VaDict(d) : d \in RenderReportInputs}

RenderInit ==
    /\ render_input \in
            {[kind |-> "single", visual_analysis |-> va] : va \in RenderVaInputs}
            \cup {[kind |-> "multi", reports |-> reports, report_url |-> url] :
                    reports \in UNION {[1..n -> RenderReportInputs] :
                                            n \in 0..MaxRenderReports},
                    url \in {Null, "https://brunivisual.com/test/r1"}}
    /\ markdown = Pending
    /\ VisionIdle
    /\ ReportIdle
    /\ AggIdle
    /\ PubIdle
    /\ SendIdle
    /\ SectIdle
    /\ RateIdle
    /\ DiffIdle
    /\ MainIdle

\* One call of format_visual_analysis_to_markdown
FormatSingle ==
    /\ render_input.kind = "single"
    /\ markdown = Pending
    /\ markdown' = [lines |-> format_visual_analysis_to_markdown(render_input.visual_analysis)]
    /\ UNCHANGED <<render_input, visionVars, reportVars, aggVars, pubVars, sendVars, sectVars,
                   rateVars, diffVars, mainVars>>

\* One call of format_multi_page_analysis_to_markdown
FormatMulti ==
    /\ render_input.kind = "multi"
    /\ markdown = Pending
    /\ markdown' = [lines |-> format_multi_page_analysis_to_markdown(
                                    render_input.reports, render_input.report_url)]
    /\ UNCHANGED <<render_input, visionVars, reportVars, aggVars, pubVars, sendVars, sectVars,
                   rateVars, diffVars, mainVars>>

RenderNext == FormatSingle \/ FormatMulti

SpecRender == RenderInit /\ [][RenderNext]_vars

---------------------------------------------------------------------------
(* runner/__main__.py : main, lines 123-345 *)
(* A page path and a file path are sequences of text pieces.               *)

\* line 136: page_path.replace('/', '_').replace('_', '') or 'home'
PageSuffix(page_path) ==
    LET stripped == SelectSeq(page_path, LAMBDA piece : piece \notin {"/", "_"})
    IN  IF stripped = <<>> THEN <<"home">> ELSE stripped

\* lines 137-139: the three files of a page
PageFile(kind, page_suffix) == <<kind>> \o page_suffix \o <<".png">>

\* lines 193-194: the two files of a section
SectionFile(kind, page_suffix, section_id) ==
    <<kind>> \o page_suffix \o <<"_section_", section_id, ".png">>

\* What a screenshot shows: the url it was taken from and the section it was
\* cropped to (Null for the whole page)
Shot(url, section_id) == [kind |-> "png", url |-> url, section |-> section_id]

\* open(path, "wb").write(...)
WriteShot(disk, path, shot) ==
    [f \in DOMAIN disk \cup {path} |-> IF f = path THEN shot ELSE disk[f]]

\* lines 129-130: args.base_url.rstrip('/') + page_path
BaseUrl(page_path) == <<"https://example.com">> \o page_path
PrUrl(page_path) == <<"https://preview.example.com">> \o page_path

\* lines 162-170
NewPageResult(page_path, page_suffix) ==
    [page_path |-> page_path,
     base_url |-> BaseUrl(page_path),
     pr_url |-> PrUrl(page_path),
     base_screenshot |-> PageFile("base_screenshot_", page_suffix),
     pr_screenshot |-> PageFile("pr_screenshot_", page_suffix),
     diff_output_path |-> PageFile("diff_", page_suffix),
     section_screenshots |-> EmptyDict]

\* lines 188-217: the section_screenshots dict of a page whose sections were
\* all captured
SectionScreenshots(section_ids, page_suffix) ==
    [section_id \in section_ids |->
        [base |-> SectionFile("base_screenshot_", page_suffix, section_id),
         pr |-> SectionFile("pr_screenshot_", page_suffix, section_id)]]

\* lines 195-206: the files the captures of a page's sections write
RECURSIVE CaptureSections(_, _, _, _)
CaptureSections(disk, page_result, section_ids, page_suffix) ==
    IF section_ids = {} THEN disk
    ELSE LET section_id == CHOOSE x \in section_ids : TRUE
             d1 == WriteShot(disk, SectionFile("base_screenshot_", page_suffix, section_id),
                             Shot(page_result.base_url, section_id))
             d2 == WriteShot(d1, SectionFile("pr_screenshot_", page_suffix, section_id),
                             Shot(page_result.pr_url, section_id))
         IN  CaptureSections(d2, page_result, section_ids \ {section_id}, page_suffix)

\* lines 245-269: final_summary, the branding line first
RECURSIVE PageSummaries(_, _)
PageSummaries(all_analyses, i) ==
    IF i > Len(all_analyses) THEN <<>>
    ELSE <<"<summary>Page ", ToString(i), ": ">> \o all_analyses[i].page_path
         \o <<"</summary>", "Structural Analysis", all_analyses[i].sections_analysis>>
         \o JoinLines(format_visual_analysis_to_markdown(all_analyses[i].visual_analysis))
         \o PageSummaries(all_analyses, i + 1)

FinalSummary(all_analyses) ==
    Branding \o <<"(https://www.brunivisual.com/)", "**Testing Summary**: ",
                  ToString(Len(all_analyses)), " pages analyzed">>
    \o PageSummaries(all_analyses, 1)

\* lines 279-281: encode_image reads the file as it is at that moment
EncodeImage(disk, path) == disk[path]

\* lines 285-308: the page results handed to the report generator
EncodedPageResults(disk, all_analyses, all_results) ==
    LET n == IF Len(all_analyses) < Len(all_results) THEN Len(all_analyses)
             ELSE Len(all_results)                                  \* zip
        Refs(page_result) ==
            [base_screenshot |-> EncodeImage(disk, page_result.base_screenshot),
             pr_screenshot |-> EncodeImage(disk, page_result.pr_screenshot),
             diff_image |-> EncodeImage(disk, page_result.diff_output_path)]
            @@ (IF DOMAIN page_result.section_screenshots # {}
                THEN [section_screenshots |->
                        [section_id \in DOMAIN page_result.section_screenshots |->
                            [base |-> EncodeImage(disk,
                                        page_result.section_screenshots[section_id].base),
                             pr |-> EncodeImage(disk,
                                        page_result.section_screenshots[section_id].pr)]]]
                ELSE EmptyDict)
    IN  [i \in 1..n |->
            [page_path |-> all_results[i].page_path,
             base_url |-> all_results[i].base_url,
             pr_url |-> all_results[i].pr_url,
             visual_analysis |-> all_analyses[i].visual_analysis,
             sections_analysis |-> all_analyses[i].sections_analysis,
             image_refs |-> Refs(all_results[i])]]

\* reporter/reporter.py lines 41-93: the loop over the chunks, the k-th
\* chunk answered by answers[k]
RECURSIVE SendLoop(_, _, _)
SendLoop(locals, chunks, answers) ==
    IF locals.chunk_index = Len(chunks)
    THEN [kind |-> "list", val |-> locals.all_responses]
    ELSE LET response == answers[locals.chunk_index + 1]
         IN  IF ResponseFails(response)
             THEN [kind |-> "raised", error |-> "ValueError"]
             ELSE SendLoop([HandleOk(locals, response) EXCEPT !.chunk_index = @ + 1],
                           chunks, answers)

\* reporter/reporter.py lines 28-93: None without a token, else the list of
\* what was appended for each chunk, each element tagged as the JSON object
\* it is
send_multi_page_report(bruni_token, report, answers) ==
    IF bruni_token = "" THEN [kind |-> "None"]
    ELSE LET r == SendLoop(IdleSend, MakeChunks(report.reports), answers)
         IN  IF r.kind = "list"
             THEN [kind |-> "list", val |-> [k \in 1..Len(r.val) |-> JObject(r.val[k])]]
             ELSE r

\* line 321: `"id" in api_response` on a list is a test for an element equal
\* to the string "id"; the elements are the JSON values the backend sent.
InList(x, list) == \E i \in 1..Len(list) : list[i].kind = "string" /\ list[i].val = x

\* line 324-325
ReportUrl(report_id) == <<"https://bruniai-app.vercel.app", "/test/", report_id>>

\* lines 318-332: report_url after the send, and what is logged. A send
\* that raised is caught at line 331; so is the TypeError of line 322 when a
\* list is indexed with "id".
ReportUrlOf(api_response) ==
    CASE api_response.kind = "raised" ->
            [report_url |-> Null, logged |-> "Failed to send report to Bruni API"]
      [] api_response.kind = "dict" /\ DOMAIN api_response.val # {}
            /\ "id" \in DOMAIN api_response.val ->
            [report_url |-> ReportUrl(api_response.val["id"]),
             logged |-> "Report available at"]
      [] api_response.kind = "list" /\ Len(api_response.val) > 0
            /\ InList("id", api_response.val) ->
            [report_url |-> Null, logged |-> "Failed to send report to Bruni API"]
      [] OTHER -> [report_url |-> Null, logged |-> "No report ID found in API response"]

\* lines 335-336
WithReportLink(final_summary, report_url) ==
    IF report_url # Null
    THEN final_summary \o <<"**Complete Report**: [View detailed analysis]">> \o report_url
    ELSE final_summary

---------------------------------------------------------------------------
(* One run of main over the pages of a PR *)

MaxMainPages == 2

PagePaths == {<<"/">>, <<"/", "about">>, <<"/", "docs">>}

\* The pages argument: different paths
PageLists ==
    {pages \in UNION {[1..n -> PagePaths] : n \in 1..MaxMainPages} :
        \A a, b \in 1..Len(pages) : a # b => pages[a] # pages[b]}

\* The section ids the sections analysis of a page names
SectionIdSets == {{}, {"hero"}}

\* What the oracle answers to the visual analysis of a page
MainRaws ==
    {[kind |-> "text"],
     [kind |-> "object", val |-> EmptyDict],
     [kind |-> "object", val |-> [critical_issues_enum |-> "missing_sections"]]}

\* What the backend answers to a chunk
MainResponses ==
    {[ok |-> TRUE, json |-> TRUE, data |-> [id |-> "r1", test |-> JObject([id |-> "r1"])]],
     [ok |-> TRUE, json |-> TRUE, data |-> [status |-> "success"]],
     [ok |-> FALSE, json |-> FALSE, text |-> "Server Error"]}

NotPosted == <<>>

MainInit ==
    /\ \E pages \in PageLists, bruni_token \in {"", "test-token"} :
            main = [pc |-> "capture", pages |-> pages, bruni_token |-> bruni_token,
                    i |-> 1, page_suffix |-> <<>>, all_results |-> <<>>,
                    j |-> 1, all_analyses |-> <<>>, log |-> <<>>,
                    final_summary |-> <<>>, answers |-> <<>>,
                    api_response |-> [kind |-> "None"], report_url |-> Null,
                    posted |-> NotPosted]
    /\ shots = NoShots
    /\ VisionIdle
    /\ ReportIdle
    /\ AggIdle
    /\ PubIdle
    /\ SendIdle
    /\ SectIdle
    /\ RateIdle
    /\ DiffIdle
    /\ RenderIdle

LogEntry(level, msg, about) == [level |-> level, msg |-> msg, about |-> about]

\* lines 125-171: one iteration of the first loop; a page whose screenshots
\* fail is logged and skipped
CapturePage ==
    /\ main.pc = "capture"
    /\ LET page_path == main.pages[main.i]
           page_suffix == PageSuffix(page_path)
           page_result == NewPageResult(page_path, page_suffix)
           last == main.i = Len(main.pages)
       IN  \E success \in BOOLEAN :
            /\ shots' =
                  IF success
                  THEN WriteShot(WriteShot(WriteShot(shots,
                            page_result.base_screenshot, Shot(page_result.base_url, Null)),
                            page_result.pr_screenshot, Shot(page_result.pr_url, Null)),
                            page_result.diff_output_path, Shot(page_result.pr_url, "diff"))
                  ELSE shots
            /\ main' =
                  LET results == IF success THEN Append(main.all_results, page_result)
                                 ELSE main.all_results
                  IN  [main EXCEPT
                        !.page_suffix = page_suffix,
                        !.all_results = results,
                        !.log = IF success THEN @
                                ELSE Append(@, LogEntry("error",
                                        "Failed to capture screenshots for page", page_path)),
                        !.i = @ + 1,
                        !.pc = IF ~last THEN "capture"
                               ELSE IF results = <<>> THEN "report" ELSE "analyse"]
    /\ UNCHANGED <<visionVars, reportVars, aggVars, pubVars, sendVars, sectVars, rateVars,
                   diffVars, renderVars>>

\* lines 177-242: one iteration of the second loop. Whatever is raised in it
\* leaves the loop and the try block (lines 342-345): it is logged and main
\* ends.
AnalysePage ==
    /\ main.pc = "analyse"
    /\ LET page_result == main.all_results[main.j]
           started == Append(main.log, LogEntry("info", "Analyzing page",
                                                page_result.page_path))
           last == main.j = Len(main.all_results)
           Failed(error, results) ==
                main' = [main EXCEPT
                            !.pc = "failed",
                            !.all_results = results,
                            !.log = Append(started,
                                        LogEntry("exception", "Unexpected error occurred",
                                                 <<error>>))]
       IN  \E o \in {"ok", "timeout"}, section_ids \in SectionIdSets, r \in MainRaws :
            IF HandleOutcome(max_retries - 1, o) = "raise"
            THEN /\ Failed(RaisedError(o), main.all_results)
                 /\ shots' = shots
            ELSE LET results == [main.all_results EXCEPT ![main.j].section_screenshots =
                                    SectionScreenshots(section_ids, main.page_suffix)]
                     visual_analysis == analyze_images_with_vision(r)
                 IN  /\ shots' = CaptureSections(shots, page_result, section_ids,
                                                 main.page_suffix)
                     /\ IF visual_analysis.kind = "raised"
                        THEN Failed(visual_analysis.error, results)
                        ELSE main' = [main EXCEPT
                                !.all_results = results,
                                !.all_analyses = Append(@,
                                    [page_path |-> page_result.page_path,
                                     sections_analysis |-> "sections",
                                     visual_analysis |-> VaDict(visual_analysis.verdict)]),
                                !.log = started,
                                !.j = @ + 1,
                                !.pc = IF last THEN "report" ELSE "analyse"]
    /\ UNCHANGED <<visionVars, reportVars, aggVars, pubVars, sendVars, sectVars, rateVars,
                   diffVars, renderVars>>

\* lines 244-332: the summary is put together; with a reporter the images
\* are encoded, the report is parsed and sent, and the answer is searched
\* for the report id
BuildReport ==
    /\ main.pc = "report"
    /\ IF main.bruni_token = ""
       THEN /\ main' = [main EXCEPT !.pc = "publish",
                                    !.final_summary = FinalSummary(main.all_analyses)]
            /\ UNCHANGED reportVars
       ELSE \E answers \in [1..Len(main.all_analyses) -> MainResponses] :
            LET encoded == EncodedPageResults(shots, main.all_analyses, main.all_results)
                report == parse_multi_page_analysis_results("pr_number", "repository", encoded)
                api_response == send_multi_page_report(main.bruni_token, report, answers)
                found == ReportUrlOf(api_response)
            IN  /\ page_results' = encoded
                /\ multi_page_report' = report
                /\ UNCHANGED report_data
                /\ main' = [main EXCEPT
                        !.pc = "publish",
                        !.final_summary = FinalSummary(main.all_analyses),
                        !.answers = answers,
                        !.api_response = api_response,
                        !.report_url = found.report_url,
                        !.log = Append(@, LogEntry("info", found.logged, <<>>))]
    /\ UNCHANGED <<shots, visionVars, aggVars, pubVars, sendVars, sectVars, rateVars,
                   diffVars, renderVars>>

\* lines 334-340: the link is appended when there is one, and the summary
\* is handed to post_pr_comment
PostComment ==
    /\ main.pc = "publish"
    /\ main' = [main EXCEPT !.pc = "done",
                            !.posted = WithReportLink(main.final_summary, main.report_url)]
    /\ UNCHANGED <<shots, visionVars, reportVars, aggVars, pubVars, sendVars, sectVars,
                   rateVars, diffVars, renderVars>>

MainNext == CapturePage \/ AnalysePage \/ BuildReport \/ PostComment

SpecMain == MainInit /\ [][MainNext]_vars

---------------------------------------------------------------------------
(* Claims *)

EnumFields ==
    {[key |-> "status_enum", valid |-> valid_status_enum, default |-> "warning"],
     [key |-> "critical_issues_enum", valid |-> valid_critical_issues_enum,
      default |-> "other_issues"],
     [key |-> "visual_changes_enum", valid |-> valid_visual_changes_enum,
      default |-> "minor"],
     [key |-> "recommendation_enum", valid |-> valid_recommendation_enum,
      default |-> "review_required"]}

\* The oracle object is one the validator can walk: critical_issues is a
\* dict or absent.
WellShaped(r) ==
    /\ r.kind = "object"
    /\ "critical_issues" \in DOMAIN r.val => r.val["critical_issues"].kind = "object"

C2_PageStatusDerivation ==
    multi_page_report # Pending =>
        \A i \in 1..Len(page_results) :
            LET va == page_results[i].visual_analysis
                ce == GetNone(va.val, "critical_issues_enum")
                ve == GetNone(va.val, "visual_changes_enum")
                re == GetNone(va.val, "recommendation_enum")
                status == multi_page_report.reports[i].status
            IN  (/\ va.kind = "dict"
                 /\ ce \in valid_critical_issues_enum
                 /\ ve \in valid_visual_changes_enum
                 /\ re \in valid_recommendation_enum) =>
                    /\ ce # "none" => status = "fail"
                    /\ (ce = "none" /\ (ve \in {"significant", "minor"}
                                        \/ re = "review_required")) => status = "warning"
                    /\ (ce = "none" /\ ve = "none" /\ re \in {"pass", "reject"})
                            => status = "pass"

\* C2 witness: a page with no critical issue, a minor visual change and a
\* pass recommendation was resolved, to warning.
C2_Witness ==
    /\ multi_page_report # Pending
    /\ Len(page_results) = 1
    /\ page_results[1].visual_analysis.kind = "dict"
    /\ GetNone(page_results[1].visual_analysis.val, "critical_issues_enum") = "none"
    /\ GetNone(page_results[1].visual_analysis.val, "visual_changes_enum") = "minor"
    /\ GetNone(page_results[1].visual_analysis.val, "recommendation_enum") = "pass"
    /\ multi_page_report.reports[1].status = "warning"

\* Severity order fail > warning > pass > none
Severity(status) ==
    CASE status = "fail" -> 3
      [] status = "warning" -> 2
      [] status = "pass" -> 1
      [] OTHER -> 0

\* The status a report carries: its status field, or status_enum when it has
\* no status, or none when it has neither.
CarriedStatus(report) ==
    IF "status" \in DOMAIN report /\ report["status"] # Null THEN report["status"]
    ELSE IF "status_enum" \in DOMAIN report THEN report["status_enum"]
    ELSE "none"

\* C3: aggregation takes the maximum severity. The overall status is one of
\* fail, warning, pass, none and its severity equals the highest severity
\* among the reports' statuses (none for the empty list).
C3_AggregateIsMaxSeverity ==
    overall_status # Null =>
        /\ overall_status \in valid_status_enum
        /\ \A i \in 1..Len(agg_reports) :
                Severity(overall_status) >= Severity(CarriedStatus(agg_reports[i]))
        /\ \/ \E i \in 1..Len(agg_reports) :
                    Severity(overall_status) = Severity(CarriedStatus(agg_reports[i]))
           \/ overall_status = "none"

\* C3 witness: a list holding a warning report before a fail report was
\* aggregated to fail.
C3_Witness ==
    /\ overall_status = "fail"
    /\ Len(agg_reports) = 2
    /\ CarriedStatus(agg_reports[1]) = "warning"
    /\ CarriedStatus(agg_reports[2]) = "fail"

\* A comment body that opens with one of the recognised sentinel prefixes
IsSentinel(body) == \E prefix \in SentinelPrefixes : StartsWith(body, prefix)

\* The positions of the sentinel-prefixed comments of a list
ToolComments(list) == {i \in 1..Len(list) : IsSentinel(list[i].body)}

\* The call has ended and both its fetch and its write were answered with success.
Published(p) ==
    /\ runs[p].pc = "done"
    /\ Len(runs[p].calls) = 2
    /\ runs[p].calls[1].answered /\ runs[p].calls[1].status = 200
    /\ runs[p].calls[2].answered /\ runs[p].calls[2].status \in {200, 201}

\* Nothing has touched the PR since call p ended.
LatestCall(p) == runs[p].pc = "done" /\ (p < MaxRuns => runs[p + 1].pc = "idle")

\* C4: idempotent publish. Two calls of post_pr_comment in a row, each with
\* a body built by the runner and each answered with success by GitHub, on a
\* PR that held at most one sentinel-prefixed comment before the first call,
\* leave exactly one sentinel-prefixed comment, and its body is the body the
\* second call posted.
C4_IdempotentPublish ==
    \A p \in Runs : \A q \in Runs :
        (/\ q = p + 1
         /\ Published(p) /\ Published(q) /\ LatestCall(q)
         /\ StartsWith(runs[p].body, Branding) /\ StartsWith(runs[q].body, Branding)
         /\ Cardinality(ToolComments(runs[p].before)) <= 1)
        => \E i \in 1..Len(comments) :
                /\ ToolComments(comments) = {i}
                /\ comments[i].body = runs[q].body

\* C4 witness: on a PR without a tool comment, a first call created one and
\* a second call with another body has ended, both answered with success.
C4_Witness ==
    /\ Published(1) /\ Published(2)
    /\ ToolComments(runs[1].before) = {}
    /\ runs[1].calls[2].method = "POST"
    /\ runs[2].calls[2].method = "PATCH"
    /\ StartsWith(runs[1].body, Branding) /\ StartsWith(runs[2].body, Branding)
    /\ runs[1].body # runs[2].body
    /\ Cardinality(ToolComments(comments)) = 1

\* C5: find-or-update. A call whose fetch was answered 200 issues exactly
\* one write: when the fetched list holds a sentinel-prefixed comment, an
\* edit of the first such comment in list order; when it holds none, a
\* create. No call issues more than one write.
C5_FindOrUpdate ==
    \A p \in Runs :
        LET calls == runs[p].calls
            matches == ToolComments(runs[p].fetched)
        IN  /\ Len(calls) <= 2
            /\ Len(calls) >= 1 => calls[1].method = "GET"
            /\ (runs[p].pc = "done" /\ Len(calls) >= 1
                    /\ calls[1].answered /\ calls[1].status = 200) =>
                /\ Len(calls) = 2
                /\ matches # {} =>
                    /\ calls[2].method = "PATCH"
                    /\ \E i \in matches :
                        /\ \A j \in matches : i <= j
                        /\ calls[2].id = runs[p].fetched[i].id
                /\ matches = {} => calls[2].method = "POST"

\* C5 witness: a call that fetched a list with two sentinel-prefixed
\* comments has edited one, and a call that fetched none has created one.
C5_Witness ==
    \E p \in Runs :
        /\ runs[p].pc = "done"
        /\ Cardinality(ToolComments(runs[p].fetched)) = 2
        /\ Len(runs[p].calls) = 2
        /\ runs[p].calls[2].method = "PATCH"
        /\ runs[p].calls[2].id = 1

\* C6: best-effort publishing. A call in which every request was answered,
\* whatever the status codes, returns without raising; and a call whose
\* fetch was answered with a status other than 200 issues no write, so the
\* PR's comment list is as it was when the call began.
C6_BestEffort ==
    \A p \in Runs :
        runs[p].pc = "done" =>
            LET calls == runs[p].calls
            IN  /\ (\A i \in 1..Len(calls) : calls[i].answered) => runs[p].result = "returned"
                /\ (Len(calls) >= 1 /\ calls[1].answered /\ calls[1].status # 200) =>
                    /\ Len(calls) = 1
                    /\ LatestCall(p) => comments = runs[p].before

\* C6 witness: a call whose fetch was answered 403 has ended, and another
\* whose edit was answered 404 has ended, both by returning.
C6_Witness ==
    /\ runs[1].pc = "done" /\ runs[1].result = "returned"
    /\ Len(runs[1].calls) = 1 /\ runs[1].calls[1].status = 403
    /\ runs[2].pc = "done" /\ runs[2].result = "returned"
    /\ Len(runs[2].calls) = 2 /\ runs[2].calls[2].status = 404

\* The requests on the wire, in the order they were sent
Requests == SelectSeq(wire, LAMBDA e : e.dir = "request")

\* The backend's answers on the wire, in the order they arrived
Answers == SelectSeq(wire, LAMBDA e : e.dir = "response")

\* C7: chunk-order preservation. The parsed reports are the page results in
\* input order; the k-th request on the wire carries exactly the k-th report,
\* chunk_index k-1 and total_chunks n; and requests and answers alternate on
\* the wire, so no request goes out before the previous one was answered.
C7_ChunkOrder ==
    /\ multi_page_report # Pending =>
        /\ Len(multi_page_report.reports) = Len(page_results)
        /\ \A i \in 1..Len(page_results) :
            /\ multi_page_report.reports[i].page_path = page_results[i].page_path
            /\ multi_page_report.reports[i].url = page_results[i].base_url
            /\ multi_page_report.reports[i].preview_url = page_results[i].pr_url
    /\ \A k \in 1..Len(Requests) :
        /\ Requests[k].payload.reports = <<multi_page_report.reports[k]>>
        /\ Requests[k].payload.reports[1].page_path = page_results[k].page_path
        /\ Requests[k].payload.chunk_index = k - 1
        /\ Requests[k].payload.total_chunks = Len(page_results)
    /\ \A i \in 1..Len(wire) : (wire[i].dir = "request") <=> (i % 2 = 1)

\* C7 witness: three different pages were parsed and sent, all three
\* requests answered, and the send returned.
C7_Witness ==
    /\ send.pc = "returned"
    /\ Len(Requests) = 3
    /\ page_results[1].page_path = "/about"
    /\ page_results[2].page_path = "/legacy"
    /\ page_results[3].page_path = "/"
    /\ Requests[3].payload.chunk_index = 2

\* C8: fail fast. A non-success answer is the last thing on the wire: the
\* send has raised, no further chunk is sent and no list is returned.
C8_FailFast ==
    \A i \in 1..Len(wire) :
        (wire[i].dir = "response" /\ ~wire[i].response.ok) =>
            /\ i = Len(wire)
            /\ send.pc = "raised"
            /\ send.result.kind = "raised"

\* C8 witness: the second of three chunks was answered with an error.
C8_Witness ==
    /\ Len(page_results) = 3
    /\ Len(wire) = 4
    /\ wire[2].response.ok
    /\ ~wire[4].response.ok
    /\ send.pc = "raised"

\* The test id an answer supplies: the id of its JSON body's test object
SuppliesTestId(response) ==
    /\ response.ok /\ response.json
    /\ "test" \in DOMAIN response.data
    /\ response.data["test"].kind = "object"
    /\ "id" \in DOMAIN response.data["test"].val

\* C9: test_id propagation. The request for chunk 0 has no test_id; when
\* the answer to chunk 0 supplies a test id, every later request carries
\* exactly that id.
C9_TestIdPropagation ==
    /\ Len(Requests) >= 1 => "test_id" \notin DOMAIN Requests[1].payload
    /\ (Len(Answers) >= 1 /\ SuppliesTestId(Answers[1].response)) =>
        \A k \in 2..Len(Requests) :
            /\ "test_id" \in DOMAIN Requests[k].payload
            /\ Requests[k].payload.test_id = Answers[1].response.data["test"].val["id"]

\* C9 witness: chunk 0 was answered with test id t1, chunk 1 with another
\* id, and the request for chunk 2 carries t1.
C9_Witness ==
    /\ Len(Requests) = 3
    /\ SuppliesTestId(Answers[1].response)
    /\ Answers[1].response.data["test"].val["id"] = "t1"
    /\ SuppliesTestId(Answers[2].response)
    /\ Answers[2].response.data["test"].val["id"] = "t2"
    /\ Requests[3].payload.test_id = "t1"

\* C10: one response per chunk. When a token is set and every chunk was
\* answered ok with a JSON body, the returned list has one entry per chunk,
\* the i-th being the JSON body of the answer to chunk i, whatever its keys.
C10_OneResponsePerChunk ==
    (/\ send.pc = "returned"
     /\ token # ""
     /\ \A i \in 1..Len(Answers) : Answers[i].response.ok /\ Answers[i].response.json)
    => /\ send.result.kind = "list"
       /\ Len(send.result.val) = Len(Requests)
       /\ Len(send.result.val) = Len(page_results)
       /\ \A i \in 1..Len(send.result.val) : send.result.val[i] = Answers[i].response.data

\* C15: unparseable oracle output is a hard failure. When the oracle's raw
\* text is not valid JSON, analyze_images_with_vision raises the parse error
\* and returns no verdict: nothing is repaired and no default verdict stands
\* in for it.
C15_UnparseableIsHardFailure ==
    (outcome # Pending /\ raw.kind = "text") =>
        /\ outcome.kind = "raised"
        /\ outcome.error = "Failed to parse AI response as JSON"
        /\ "verdict" \notin DOMAIN outcome

\* C15 witness: the call on text that is not JSON has ended by raising.
C15_Witness ==
    /\ raw.kind = "text"
    /\ outcome.kind = "raised"
    /\ outcome.error = "Failed to parse AI response as JSON"

IdentityFromCaller == {"url", "preview_url", "pr_number", "repository", "user_id"}

\* C16: identity fields are never trusted from the oracle. In every returned
\* verdict url, preview_url, pr_number, repository and user_id are the
\* caller's arguments and id, timestamp and created_at are the freshly
\* generated values, whatever the oracle's object held under those keys.
C16_IdentityNotFromOracle ==
    outcome.kind = "returned" =>
        /\ \A k \in IdentityFromCaller :
            /\ k \in DOMAIN outcome.verdict
            /\ outcome.verdict[k] = CallerArgs[k]
        /\ GetNone(outcome.verdict, "id") = FreshId
        /\ GetNone(outcome.verdict, "timestamp") = FreshTime
        /\ GetNone(outcome.verdict, "created_at") = FreshTime

\* C16 witness: a verdict was returned for an oracle object that carried its
\* own values for the identity keys.
C16_Witness ==
    /\ outcome.kind = "returned"
    /\ \A k \in IdentityFromCaller \cup {"id", "timestamp", "created_at"} :
        GetNone(raw.val, k) = "oracle"
    /\ outcome.verdict["repository"] = "repository"
    /\ outcome.verdict["id"] = "uuid4"

\* The sections list of an object, the empty list when there is none.
SectionsOf(d) ==
    IF "critical_issues" \in DOMAIN d /\ d["critical_issues"].kind = "object"
    THEN Get(d["critical_issues"].val, "sections", <<>>)
    ELSE <<>>

\* C17: section status repair. In every returned verdict the sections are
\* the oracle's sections, entry for entry, each with status Present or
\* Missing: a status that was anything else or absent has become Present,
\* and an entry that was already Present or Missing is unchanged.
C17_SectionStatusRepair ==
    outcome.kind = "returned" =>
        LET given == SectionsOf(raw.val)
            kept == SectionsOf(outcome.verdict)
        IN  /\ Len(kept) = Len(given)
            /\ \A i \in 1..Len(kept) :
                /\ "status" \in DOMAIN kept[i]
                /\ kept[i]["status"] \in {"Present", "Missing"}
                /\ GetNone(given[i], "status") \in {"Present", "Missing"}
                    => kept[i] = given[i]
                /\ GetNone(given[i], "status") \notin {"Present", "Missing"}
                    => kept[i] = Put(given[i], "status", "Present")

\* C17 witness: a verdict was returned whose section came in with a status
\* outside {Present, Missing} and now reads Present.
C17_Witness ==
    /\ outcome.kind = "returned"
    /\ Len(SectionsOf(raw.val)) = 1
    /\ GetNone(SectionsOf(raw.val)[1], "status") = "bogus"
    /\ SectionsOf(outcome.verdict)[1]["status"] = "Present"

\* C18: status stays in sync with status_enum. Every returned verdict has
\* both keys and they are equal: warning when the oracle's status_enum was
\* absent or invalid, the oracle's status_enum otherwise, whatever the
\* oracle's own status said.
C18_StatusMirrorsEnum ==
    outcome.kind = "returned" =>
        /\ "status" \in DOMAIN outcome.verdict
        /\ "status_enum" \in DOMAIN outcome.verdict
        /\ outcome.verdict["status"] = outcome.verdict["status_enum"]
        /\ GetNone(raw.val, "status_enum") \notin valid_status_enum
            => outcome.verdict["status"] = "warning"
        /\ GetNone(raw.val, "status_enum") \in valid_status_enum
            => outcome.verdict["status"] = raw.val["status_enum"]

\* C18 witness: the oracle gave a free-text status and no status_enum, and
\* the returned verdict reads warning in both.
C18_Witness ==
    /\ outcome.kind = "returned"
    /\ "status_enum" \notin DOMAIN raw.val
    /\ GetNone(raw.val, "status") = "legacy text"
    /\ outcome.verdict["status"] = "warning"
    /\ outcome.verdict["status_enum"] = "warning"

\* The image files of the call: its two inputs as they were, and its outputs.
BeforeImage == diff_run.files0[diff_run.before_path]
AfterImage == diff_run.files0[diff_run.after_path]
DiffImage == files[diff_run.diff_output_path]

DiffReturned == diff_run.pc = "done" /\ diff_run.result.kind = "returned"

\* The "-resized" sibling of a screenshot path
ResizedOf(path) == <<path[1], "-resized.png">>

\* C11: diff-mask identity law. When generate_diff_image has run on two
\* inputs holding the same image, the diff mask it wrote has alpha 0 at
\* every pixel.
C11_DiffMaskIdentity ==
    (DiffReturned /\ BeforeImage = AfterImage) =>
        /\ diff_run.diff_output_path \in DOMAIN files
        /\ DiffImage.mode = "RGBA"
        /\ \A xy \in DOMAIN DiffImage.px : DiffImage.px[xy][4] = 0

\* C11 witness: the call returned on two different files holding the same
\* 3 x 1 image whose pixels are not all alike.
C11_Witness ==
    /\ DiffReturned
    /\ diff_run.before_path # diff_run.after_path
    /\ BeforeImage = AfterImage
    /\ BeforeImage.width = 3 /\ BeforeImage.height = 1
    /\ BeforeImage.px[<<1, 1>>] # BeforeImage.px[<<3, 1>>]
    /\ \A xy \in DOMAIN DiffImage.px : DiffImage.px[xy][4] = 0

Larger(a, b) == IF a > b THEN a ELSE b

\* C12: padding-size law. After generate_diff_image has returned, the diff
\* mask and both "-resized" images are max(wA, wB) wide and max(hA, hB)
\* high, with a pixel at every location of that rectangle.
C12_PaddingSize ==
    DiffReturned =>
        LET w == Larger(BeforeImage.width, AfterImage.width)
            h == Larger(BeforeImage.height, AfterImage.height)
        IN  \A path \in {ResizedOf(diff_run.before_path), ResizedOf(diff_run.after_path),
                         diff_run.diff_output_path} :
                /\ path \in DOMAIN files
                /\ files[path].kind = "image"
                /\ files[path].width = w
                /\ files[path].height = h
                /\ DOMAIN files[path].px = (1..w) \X (1..h)

\* C12 witness: one input is wider (2 x 1), the other taller (1 x 2), and
\* the diff mask is 2 x 2.
C12_Witness ==
    /\ DiffReturned
    /\ BeforeImage.width = 2 /\ BeforeImage.height = 1
    /\ AfterImage.width = 1 /\ AfterImage.height = 2
    /\ DiffImage.width = 2 /\ DiffImage.height = 2
    /\ files[ResizedOf(diff_run.after_path)].width = 2

\* The RGB colour of an input at a location of the padded canvas: its own
\* pixel's red, green and blue, white outside the image.
PaddedRGB(img, xy) ==
    IF xy[1] <= img.width /\ xy[2] <= img.height
    THEN <<img.px[xy][1], img.px[xy][2], img.px[xy][3]>>
    ELSE <<255, 255, 255>>

\* The diff mask of the call with the before (after) file replaced by img
MaskWith(path, img) ==
    generate_diff_image(Put(diff_run.files0, path, img), diff_run.before_path,
                        diff_run.after_path, diff_run.diff_output_path
                       ).files[diff_run.diff_output_path]

\* C13: binary diff mask. Every pixel of the diff mask is (0,0,0,0) or
\* (255,0,0,255), and it is (255,0,0,255) exactly where the two inputs,
\* padded with white and aligned top-left, differ in red, green or blue by
\* any amount. Changing one pixel of one input leaves the mask as it was
\* at every other location.
C13_BinaryDiffMask ==
    DiffReturned =>
        /\ \A xy \in DOMAIN DiffImage.px :
            /\ DiffImage.px[xy] \in {<<0, 0, 0, 0>>, <<255, 0, 0, 255>>}
            /\ DiffImage.px[xy] = <<255, 0, 0, 255>>
                <=> PaddedRGB(BeforeImage, xy) # PaddedRGB(AfterImage, xy)
        /\ \A path \in {diff_run.before_path, diff_run.after_path} :
            \A at \in DOMAIN diff_run.files0[path].px :
                \A colour \in Palette(diff_run.files0[path].mode) :
                    LET changed == [diff_run.files0[path] EXCEPT !.px[at] = colour]
                        mask == MaskWith(path, changed).px
                    IN  \A xy \in DOMAIN DiffImage.px :
                            xy # at => mask[xy] = DiffImage.px[xy]

\* C13 witness: the inputs differ in the blue channel by 1 at one location
\* and agree at another inside both; a third location lies outside the
\* smaller input, where the larger one is not white. The mask is red at the
\* first and third and transparent at the second.
C13_Witness ==
    /\ DiffReturned
    /\ BeforeImage.width = 1 /\ BeforeImage.height = 3
    /\ AfterImage.width = 1 /\ AfterImage.height = 2
    /\ BeforeImage.px[<<1, 1>>] = <<255, 255, 254>>
    /\ AfterImage.px[<<1, 1>>] = <<255, 255, 255, 0>>
    /\ PaddedRGB(BeforeImage, <<1, 2>>) = PaddedRGB(AfterImage, <<1, 2>>)
    /\ BeforeImage.px[<<1, 3>>] = <<255, 255, 254>>
    /\ DiffImage.px[<<1, 1>>] = <<255, 0, 0, 255>>
    /\ DiffImage.px[<<1, 2>>] = <<0, 0, 0, 0>>
    /\ DiffImage.px[<<1, 3>>] = <<255, 0, 0, 255>>

Unreadable(path) ==
    \/ path \notin DOMAIN diff_run.files0
    \/ diff_run.files0[path].kind # "image"

\* C14: image read failure propagates. When either input file is missing or
\* is no image, the call ends by raising, and the file system is as it was:
\* no "-resized" image and no diff image has been written.
C14_ReadFailurePropagates ==
    (diff_run.pc = "done" /\ (Unreadable(diff_run.before_path) \/ Unreadable(diff_run.after_path))) =>
        /\ diff_run.result.kind = "raised"
        /\ files = diff_run.files0
        /\ ResizedOf(diff_run.before_path) \notin DOMAIN files
        /\ ResizedOf(diff_run.after_path) \notin DOMAIN files
        /\ diff_run.diff_output_path \notin DOMAIN files

\* C14 witness: the before file is an image, the after file is no image,
\* and the call has raised without writing anything.
C14_Witness ==
    /\ diff_run.pc = "done"
    /\ ~Unreadable(diff_run.before_path)
    /\ diff_run.after_path \in DOMAIN diff_run.files0
    /\ Unreadable(diff_run.after_path)
    /\ diff_run.result.kind = "raised"
    /\ ResizedOf(diff_run.before_path) \notin DOMAIN files

OracleCalls == SelectSeq(oracle_log, LAMBDA e : e.ev = "call")
RetrySleeps == SelectSeq(oracle_log, LAMBDA e : e.ev = "sleep")

\* C19: bounded retry of the section oracle. There are never more than 3
\* oracle calls, every wait is the fixed 15 seconds and none follows the
\* third call; a run in which every call timed out has made exactly 3 calls
\* and 2 waits and has raised the terminal timeout error; a call that
\* succeeds is the last thing the run does, and its result is what the run
\* returns.
C19_BoundedRetry ==
    /\ Len(OracleCalls) <= 3
    /\ \A i \in 1..Len(oracle_log) :
        oracle_log[i].ev = "sleep" =>
            /\ oracle_log[i].seconds = 15
            /\ Cardinality({j \in 1..i : oracle_log[j].ev = "call"}) < 3
    /\ (/\ sect.pc \in {"returned", "raised"}
        /\ \A i \in 1..Len(OracleCalls) : OracleCalls[i].outcome = "timeout")
        => /\ Len(OracleCalls) = 3
           /\ Len(RetrySleeps) = 2
           /\ sect.result = [kind |-> "raised",
                             error |-> "Section analysis timed out after all retries"]
    /\ \A i \in 1..Len(oracle_log) :
        (oracle_log[i].ev = "call" /\ oracle_log[i].outcome = "ok") =>
            /\ i = Len(oracle_log)
            /\ sect.result = [kind |-> "returned", final_output |-> oracle_log[i].n]
    /\ sect.pc = "returned" =>
        /\ oracle_log[Len(oracle_log)].ev = "call"
        /\ oracle_log[Len(oracle_log)].outcome = "ok"

\* C19 witness: three calls timed out with a wait after the first and the
\* second, and the run raised the terminal error.
C19_Witness ==
    /\ sect.pc = "raised"
    /\ Len(OracleCalls) = 3
    /\ \A i \in 1..3 : OracleCalls[i].outcome = "timeout"
    /\ Len(oracle_log) = 5
    /\ oracle_log[2].ev = "sleep" /\ oracle_log[4].ev = "sleep"
    /\ sect.result.error = "Section analysis timed out after all retries"

\* C20: minimum-interval rate limiting. For calls made one after another
\* through one wrapper, the wrapped function of a call begins at least
\* 60 / calls_per_minute seconds after that of the previous call began, and
\* a call that arrives that late or later begins at once.
C20_MinimumInterval ==
    /\ \A i \in 2..Len(func_starts) :
        func_starts[i].began - func_starts[i - 1].began >= 60 \div calls_per_minute
    /\ \A i \in 1..Len(func_starts) :
        (i = 1 \/ func_starts[i].arrived - func_starts[i - 1].began >= 60 \div calls_per_minute)
            => func_starts[i].began = func_starts[i].arrived

\* C20 witness: the second call arrived 1 second after the first began and
\* began 3 seconds after it; the third arrived later than the interval and
\* began at once.
C20_Witness ==
    /\ Len(func_starts) = 3
    /\ func_starts[2].arrived - func_starts[1].began = 1
    /\ func_starts[2].began - func_starts[1].began = 3
    /\ func_starts[3].arrived - func_starts[2].began > 3
    /\ func_starts[3].began = func_starts[3].arrived

---------------------------------------------------------------------------
(* Free text and the two status derivations *)

\* C23: a page whose visual analysis is free text is stored as fail when
\* the text reports missing sections or critical problems, as warning when
\* it reports significant changes or that review is required, and as pass
\* otherwise; "No significant changes detected" is stored as pass.
C23_LegacyTextClassification ==
    multi_page_report # Pending =>
        \A i \in 1..Len(page_results) :
            page_results[i].visual_analysis.kind = "str" =>
                multi_page_report.reports[i].status =
                    LegacyTextStatus(page_results[i].visual_analysis.text)

\* C30: the status the markdown renderer derives for a page equals the
\* status stored in that page's report.
C30_StatusDerivationsAgree ==
    multi_page_report # Pending =>
        \A i \in 1..Len(page_results) :
            determine_status_from_visual_analysis(page_results[i].visual_analysis)
                = multi_page_report.reports[i].status

---------------------------------------------------------------------------
(* The enums of a single-page report *)

\* C24: every report returned by parse_analysis_results holds a valid value
\* in status_enum, critical_issues_enum, visual_changes_enum and
\* recommendation_enum, whatever the input analysis held for those keys.
C24_ReportEnumsValid ==
    report_data # Pending =>
        /\ report_data.status_enum \in valid_status_enum
        /\ report_data.critical_issues_enum \in valid_critical_issues_enum
        /\ report_data.visual_changes_enum \in valid_visual_changes_enum
        /\ report_data.recommendation_enum \in valid_recommendation_enum

---------------------------------------------------------------------------
(* What a rendering shows *)

\* The status named in the header line
HeaderStatus(lines) == lines[1][7]

\* The statuses of the rows of the summary table, in order
RowStatuses(lines) ==
    LET rows == SelectSeq(lines, LAMBDA l : Len(l) = 7 /\ l[1] = "| ")
    IN  [i \in 1..Len(rows) |-> rows[i][6]]

\* The statuses of the <summary> lines, in order
SummaryStatuses(lines) ==
    LET sums == SelectSeq(lines, LAMBDA l : Len(l) = 10 /\ l[1] = "<summary>")
    IN  [i \in 1..Len(sums) |-> sums[i][8]]

\* C22: for a non-empty list of reports the header of the multi-page
\* rendering names the aggregate of the statuses shown in the table rows,
\* the <summary> lines show the same statuses as the rows, and a list with
\* a page whose critical_issues_enum is not none gets a Fail header.
C22_HeaderAgreesWithRows ==
    (render_input.kind = "multi" /\ markdown # Pending /\ Len(render_input.reports) > 0) =>
        LET shown == RowStatuses(markdown.lines)
        IN  /\ Len(shown) = Len(render_input.reports)
            /\ SummaryStatuses(markdown.lines) = shown
            /\ HeaderStatus(markdown.lines)
                    = Title(get_test_status([i \in 1..Len(shown) |-> [status |-> shown[i]]]))
            /\ (\E i \in 1..Len(render_input.reports) :
                    Get(render_input.reports[i], "critical_issues_enum", "none") # "none")
                    => HeaderStatus(markdown.lines) = "Fail"

\* C25: whatever a renderer returns starts with one of the prefixes that
\* post_pr_comment scans for.
C25_RenderingsAreSentinelPrefixed ==
    markdown # Pending => IsToolComment(JoinLines(markdown.lines))

---------------------------------------------------------------------------
(* Runs of post_pr_comment that overlap *)

\* C26: once all runs of post_pr_comment on a PR have finished, however
\* their requests interleaved, a PR that held at most one sentinel-prefixed
\* comment when each run began holds at most one.
C26_OneToolCommentUnderInterleaving ==
    (/\ \A p \in Runs : runs[p].pc = "done"
     /\ \A p \in Runs : Cardinality(ToolComments(runs[p].before)) <= 1)
        => Cardinality(ToolComments(comments)) <= 1

---------------------------------------------------------------------------
(* Calls that enter the rate limiter concurrently *)

\* C27: however the calls through one wrapper interleave, any two
\* invocations of the wrapped function begin at least min_interval apart.
C27_SerialisedUnderConcurrency ==
    \A i, j \in 1..Len(func_starts) :
        i < j => func_starts[j].began - func_starts[i].began >= min_interval

---------------------------------------------------------------------------
(* A run of main from the pages to the comment *)

\* main has ended: the comment was handed over, or the except of lines
\* 342-345 was taken
Ended == main.pc \in {"done", "failed"}

\* The analysis of the page was started
AnalysisStarted(page_path) ==
    \E k \in 1..Len(main.log) :
        main.log[k].msg = "Analyzing page" /\ main.log[k].about = page_path

\* C21: when main has ended a run over several captured pages, the
\* analysis of every one of them was started, whatever happened to the
\* pages before it; a comment was published, and every page whose analysis
\* succeeded appears in it and, with a reporter, in the report.
C21_PerPageFailureIsolation ==
    (Ended /\ Len(main.all_results) > 1) =>
        /\ \A k \in 1..Len(main.all_results) :
                AnalysisStarted(main.all_results[k].page_path)
        /\ main.posted # NotPosted
        /\ \A k \in 1..Len(main.all_analyses) :
                /\ Contains(main.posted,
                            <<": ">> \o main.all_analyses[k].page_path \o <<"</summary>">>)
                /\ main.bruni_token # "" =>
                        /\ multi_page_report # Pending
                        /\ \E n \in 1..Len(multi_page_report.reports) :
                                multi_page_report.reports[n].page_path
                                    = main.all_analyses[k].page_path

\* The backend accepted every chunk and its first answer names the id of
\* the stored test
AcceptedWithId ==
    /\ main.bruni_token # ""
    /\ Len(main.answers) > 0
    /\ \A k \in 1..Len(main.answers) : main.answers[k].ok /\ main.answers[k].json
    /\ "id" \in DOMAIN main.answers[1].data

\* C28: a comment published after the backend accepted every chunk and
\* returned an id carries the report link built from that id, and a comment
\* carries a report link in no other case.
C28_ReportLinkReachesComment ==
    main.pc = "done" =>
        /\ AcceptedWithId =>
                Contains(main.posted,
                         <<"**Complete Report**: [View detailed analysis]">>
                            \o ReportUrl(main.answers[1].data["id"]))
        /\ Contains(main.posted, <<"**Complete Report**: [View detailed analysis]">>)
                => AcceptedWithId

\* C29: the section screenshots packaged into a page's image_refs were
\* taken from that page's own base and PR urls, of the section they are
\* filed under.
C29_SectionShotsOfOwnPage ==
    (main.pc \in {"publish", "done"} /\ multi_page_report # Pending) =>
        \A n \in 1..Len(multi_page_report.reports) :
            LET refs == multi_page_report.reports[n].image_refs
            IN  "section_screenshots" \in DOMAIN refs =>
                    \A section_id \in DOMAIN refs.section_screenshots :
                        /\ refs.section_screenshots[section_id].base
                                = Shot(page_results[n].base_url, section_id)
                        /\ refs.section_screenshots[section_id].pr
                                = Shot(page_results[n].pr_url, section_id)

====
